---- MODULE Spec2Model ----
(***************************************************************************)
(* Variant set-algebra and spatial-matching engine of vstol.               *)
(*                                                                         *)
(* The Python layer (python/vstolib) is modelled from its source: the      *)
(* record model (VariantCall ordering, Variant.add_variant_call,           *)
(* VariantsList.add_variant), the JSON round trip around every engine call *)
(* (to_dict, load_serialized_json) and the fold of main.subtract.          *)
(* The engine itself (the vstolibrs extension the Python layer calls) is   *)
(* modelled from the specification sections 4.3 and 4.4, constrained by    *)
(* the assertions of test/test_subtract.py, test_merge.py,                 *)
(* test_intersect.py and test_compare.py.                                  *)
(***************************************************************************)
EXTENDS Integers, Sequences, FiniteSets, TLC

VARIABLES
    lists,      \* <<VariantsList, VariantsList>>: the two input collections
    pc,         \* position of the driver: "build", "workers", "oracle", "done"
    op,         \* the operation that produced out ("none" before)
    params,     \* the MatchParams bundle of that operation
    out,        \* the value(s) the operation returned, or the raised flag
    uf,         \* union-find of the clustering in progress: position -> representative
    todo,       \* confirmed edges the worker pool has not united yet
    num_threads, \* size of the worker pool of the running operation (0: none)
    pair,       \* the two calls handed to the match oracle
    tree        \* the spatial index: chromosome -> set of intervals (<<>> before it is built)

vars == <<lists, pc, op, params, out, uf, todo, num_threads, pair, tree>>

----------------------------------------------------------------------------
(* Bounds of the model                                                     *)

MaxCalls == 3        \* calls placed in the two input lists together
MaxDistance == 1     \* max_neighbor_distance ranges over 0..MaxDistance
MaxPos == 2          \* positions of the oracle's inputs range over 1..MaxPos
MaxThreads == 2      \* num_threads ranges over 1..MaxThreads

----------------------------------------------------------------------------
(* Record model                                                            *)

\* Python compares chromosome names as strings: "chr1" < "chr10" < "chr16" < "chr5".
ChromOrder == <<"chr1", "chr10", "chr16", "chr5">>

ChromRank(c) == CHOOSE i \in 1..Len(ChromOrder) : ChromOrder[i] = c

\* VariantCall: the fields the engine and the filters read.
VariantCall(id, s, c1, p1, c2, p2, t, sz) ==
    [id |-> id, sample_id |-> s,
     chromosome_1 |-> c1, position_1 |-> p1,
     chromosome_2 |-> c2, position_2 |-> p2,
     variant_type |-> t, variant_size |-> sz]

\* VariantCall.__lt__: tuple order on (chromosome_1, position_1, chromosome_2, position_2)
VariantCallLt(a, b) ==
    LET a1 == ChromRank(a.chromosome_1)
        b1 == ChromRank(b.chromosome_1)
        a2 == ChromRank(a.chromosome_2)
        b2 == ChromRank(b.chromosome_2)
    IN  \/ a1 < b1
        \/ a1 = b1 /\ a.position_1 < b.position_1
        \/ a1 = b1 /\ a.position_1 = b.position_1 /\ a2 < b2
        \/ a1 = b1 /\ a.position_1 = b.position_1 /\ a2 = b2
                   /\ a.position_2 < b.position_2

\* bisect.insort (= insort_right): binary search for the insertion point
RECURSIVE BisectRight(_, _, _, _)
BisectRight(a, x, lo, hi) ==
    IF lo < hi
    THEN LET mid == (lo + hi) \div 2      \* 0-based index
         IN  IF VariantCallLt(x, a[mid + 1])
             THEN BisectRight(a, x, lo, mid)
             ELSE BisectRight(a, x, mid + 1, hi)
    ELSE lo

\* an insertion to the left of the calls with an equal locus (insort_left)
Insort_BeforeEqualCalls(a, x) ==
    LET i == Cardinality({k \in 1..Len(a) : VariantCallLt(a[k], x)})
    IN  SubSeq(a, 1, i) \o <<x>> \o SubSeq(a, i + 1, Len(a))

Insort(a, x) ==
    LET i == BisectRight(a, x, 0, Len(a))
    IN  SubSeq(a, 1, i) \o <<x>> \o SubSeq(a, i + 1, Len(a))

\* Variant(id=...): a variant without calls
NewVariant(id) == [id |-> id, variant_calls |-> <<>>]

\* a check that compares chromosome_1 only
AddVariantCallRaises_ChecksChromosome1Only(v, vc) ==
    /\ Len(v.variant_calls) > 0
    /\ vc.chromosome_1 # v.variant_calls[1].chromosome_1

\* the condition under which Variant.add_variant_call raises
AddVariantCallRaises(v, vc) ==
    /\ Len(v.variant_calls) > 0
    /\ \/ vc.chromosome_1 # v.variant_calls[1].chromosome_1
       \/ vc.chromosome_2 # v.variant_calls[1].chromosome_2

\* Variant.add_variant_call when it does not raise
AddVariantCallTo(v, vc) == [v EXCEPT !.variant_calls = Insort(@, vc)]

\* VariantsList(): no variants, empty ID -> index map (indices are 0-based)
EmptyVariantsList == [variants |-> <<>>, variants_dict |-> <<>>]

\* the ID -> index dictionary as a sequence of <<key, value>> entries
DictSet(d, k, v) ==
    IF \E i \in 1..Len(d) : d[i][1] = k
    THEN [i \in 1..Len(d) |-> IF d[i][1] = k THEN <<k, v>> ELSE d[i]]
    ELSE Append(d, <<k, v>>)

\* VariantsList.add_variant
AddVariantTo(vl, v) ==
    [variants |-> Append(vl.variants, v),
     variants_dict |-> DictSet(vl.variants_dict, v.id, Len(vl.variants))]

\* to_dict that writes only the first call of every variant
ToDict_FirstCallOnly(vl) ==
    [i \in 1..Len(vl.variants) |->
        [id |-> vl.variants[i].id,
         variant_calls |-> IF vl.variants[i].variant_calls = <<>> THEN <<>>
                           ELSE <<vl.variants[i].variant_calls[1]>>]]

\* VariantsList.to_dict followed by json.dumps: the variants with their calls;
\* the bookkeeping dictionary is not serialized.
ToDict(vl) ==
    [i \in 1..Len(vl.variants) |->
        [id |-> vl.variants[i].id, variant_calls |-> vl.variants[i].variant_calls]]

\* the inner loop of load_serialized_json: the calls of one serialized variant
\* go through add_variant_call one by one; raised is set by the first refusal.
RECURSIVE LoadVariantCalls(_, _)
LoadVariantCalls(calls, acc) ==
    IF acc.raised \/ calls = <<>>
    THEN acc
    ELSE IF AddVariantCallRaises(acc.variant, Head(calls))
         THEN [acc EXCEPT !.raised = TRUE]
         ELSE LoadVariantCalls(Tail(calls),
                  [acc EXCEPT !.variant = AddVariantCallTo(@, Head(calls))])

\* the outer loop of load_serialized_json
RECURSIVE LoadVariants(_, _)
LoadVariants(variantDicts, acc) ==
    IF acc.raised \/ variantDicts = <<>>
    THEN acc
    ELSE LET d == Head(variantDicts)
             v == LoadVariantCalls(d.variant_calls,
                      [raised |-> FALSE, variant |-> NewVariant(d.id)])
         IN  IF v.raised
             THEN [raised |-> TRUE, value |-> EmptyVariantsList]
             ELSE LoadVariants(Tail(variantDicts),
                      [acc EXCEPT !.value = AddVariantTo(@, v.variant)])

\* VariantsList.load_serialized_json
LoadSerializedJson(variantDicts) ==
    LoadVariants(variantDicts, [raised |-> FALSE, value |-> EmptyVariantsList])

\* VariantsList.load_serialized_json_list: one exception aborts the whole list
RECURSIVE LoadSerializedJsonList(_)
LoadSerializedJsonList(listOfVariantDicts) ==
    IF listOfVariantDicts = <<>>
    THEN [raised |-> FALSE, value |-> <<>>]
    ELSE LET h == LoadSerializedJson(Head(listOfVariantDicts))
             t == LoadSerializedJsonList(Tail(listOfVariantDicts))
         IN  IF h.raised \/ t.raised
             THEN [raised |-> TRUE, value |-> <<>>]
             ELSE [raised |-> FALSE, value |-> <<h.value>> \o t.value]

----------------------------------------------------------------------------
(* Match oracle (engine, specification section 4.3)                        *)

Abs(x) == IF x < 0 THEN -x ELSE x

Min2(x, y) == IF x <= y THEN x ELSE y

Max2(x, y) == IF x >= y THEN x ELSE y

\* QueryTypeDictionary whose INSERTION entry lacks DUPLICATION
QueryTypeDictionary_InsWithoutDup(t) ==
    CASE t = "SNV" -> {"SNV"}
      [] t = "MNV" -> {"MNV"}
      [] t = "INS" -> {"INS"}
      [] t = "DEL" -> {"DEL"}
      [] t = "INV" -> {"BND", "INV", "TRA"}
      [] t = "DUP" -> {"DUP", "INS"}
      [] t = "TRA" -> {"BND", "INV", "TRA"}
      [] t = "BND" -> {"BND", "INV", "TRA"}

\* VariantTypes.QueryTypeDictionary: the types a call of type t is matched with
QueryTypeDictionary(t) ==
    CASE t = "SNV" -> {"SNV"}
      [] t = "MNV" -> {"MNV"}
      [] t = "INS" -> {"DUP", "INS"}
      [] t = "DEL" -> {"DEL"}
      [] t = "INV" -> {"BND", "INV", "TRA"}
      [] t = "DUP" -> {"DUP", "INS"}
      [] t = "TRA" -> {"BND", "INV", "TRA"}
      [] t = "BND" -> {"BND", "INV", "TRA"}

\* step 2: type grouping
TypesMatch(a, b, p) ==
    p.match_variant_types => b.variant_type \in QueryTypeDictionary(a.variant_type)

\* breakpoint pair compared by position alone
BreakpointNear_AnyChromosome(c1, p1, c2, p2, D) == Abs(p1 - p2) <= D

\* one pair of breakpoints: same chromosome, positions at most D apart
BreakpointNear(c1, p1, c2, p2, D) == c1 = c2 /\ Abs(p1 - p2) <= D

\* breakpoint step that tries the direct alignment only
BreakpointsMatch_DirectOnly(a, b, p) ==
    LET D   == p.max_neighbor_distance
        n11 == BreakpointNear(a.chromosome_1, a.position_1, b.chromosome_1, b.position_1, D)
        n22 == BreakpointNear(a.chromosome_2, a.position_2, b.chromosome_2, b.position_2, D)
    IN  IF p.match_all_breakpoints THEN n11 /\ n22 ELSE n11 \/ n22

\* step 3: breakpoint distances over the direct and the swapped alignment.
\* With match_all_breakpoints both pairs of one alignment have to be near;
\* without it one near pair is enough, whatever the other pair is
\* (test_diff_2: TRA chr1:100/chr5:500 is matched by TRA chr1:101/chr16:1600;
\*  test_diff_3: it is matched by INS chr1:101/chr1:101).
BreakpointsMatch(a, b, p) ==
    LET D   == p.max_neighbor_distance
        n11 == BreakpointNear(a.chromosome_1, a.position_1, b.chromosome_1, b.position_1, D)
        n22 == BreakpointNear(a.chromosome_2, a.position_2, b.chromosome_2, b.position_2, D)
        n12 == BreakpointNear(a.chromosome_1, a.position_1, b.chromosome_2, b.position_2, D)
        n21 == BreakpointNear(a.chromosome_2, a.position_2, b.chromosome_1, b.position_1, D)
    IN  IF p.match_all_breakpoints
        THEN (n11 /\ n22) \/ (n12 /\ n21)
        ELSE n11 \/ n22 \/ n12 \/ n21

\* size overlap in which a size that is not positive gives no ratio
SizeOverlapAtLeast_UnsetGivesNoRatio(sa, sb, pct) ==
    LET lo == Min2(sa, sb)
        hi == Max2(sa, sb)
    IN  IF hi <= 0 \/ lo <= 0 THEN FALSE
        ELSE lo * 100 >= pct * hi

\* s >= threshold for s = min(size)/max(size), thresholds in percent.
\* Sizes are used as stored: two unset sizes (-1, -1) give the ratio 1
\* (test_diff_2 removes DEL chr10:9500-9600 against DEL chr10:1000-10000,
\*  neither with a variant_size); a zero maximum gives no ratio.
SizeOverlapAtLeast(sa, sb, pct) ==
    LET lo == Min2(sa, sb)
        hi == Max2(sa, sb)
    IN  IF hi = 0 THEN FALSE
        ELSE IF hi < 0 THEN lo * 100 <= pct * hi
        ELSE lo * 100 >= pct * hi

\* size step that reads the deletion threshold for insertions and the
\* insertion threshold for deletions
SizesMatch_SwapsThresholds(a, b, p) ==
    IF a.variant_type \in {"INS", "DUP"} /\ b.variant_type \in {"INS", "DUP"}
    THEN SizeOverlapAtLeast(a.variant_size, b.variant_size, p.min_del_size_overlap)
    ELSE IF a.variant_type = "DEL" /\ b.variant_type = "DEL"
         THEN SizeOverlapAtLeast(a.variant_size, b.variant_size, p.min_ins_size_overlap)
         ELSE TRUE

\* step 4: size reciprocity for {INS, DUP} and for {DEL}
SizesMatch(a, b, p) ==
    IF a.variant_type \in {"INS", "DUP"} /\ b.variant_type \in {"INS", "DUP"}
    THEN SizeOverlapAtLeast(a.variant_size, b.variant_size, p.min_ins_size_overlap)
    ELSE IF a.variant_type = "DEL" /\ b.variant_type = "DEL"
         THEN SizeOverlapAtLeast(a.variant_size, b.variant_size, p.min_del_size_overlap)
         ELSE TRUE

\* the oracle
IsMatch(a, b, p) ==
    /\ TypesMatch(a, b, p)
    /\ BreakpointsMatch(a, b, p)
    /\ SizesMatch(a, b, p)

----------------------------------------------------------------------------
(* Set-algebra engine (specification section 4.4)                          *)
(* Its inputs and outputs are the serialized lists the Python layer        *)
(* exchanges with it: sequences of [id, variant_calls].                    *)

\* the calls of one serialized list, in list order, each with its variant ID
RECURSIVE CallsOfList(_, _)
CallsOfList(variantDicts, src) ==
    IF variantDicts = <<>>
    THEN <<>>
    ELSE LET d == Head(variantDicts)
         IN  [k \in 1..Len(d.variant_calls) |->
                 [src |-> src, variant_id |-> d.id, call |-> d.variant_calls[k]]]
             \o CallsOfList(Tail(variantDicts), src)

\* the union of all calls in concatenation order of the inputs
RECURSIVE AllCallsFrom(_, _)
AllCallsFrom(ls, i) ==
    IF i > Len(ls) THEN <<>>
    ELSE CallsOfList(ls[i], i) \o AllCallsFrom(ls, i + 1)

AllCalls(ls) == AllCallsFrom(ls, 1)

\* the relation R on the positions of AllCalls(ls)
Related(flat, p, i, j) == i # j /\ IsMatch(flat[i].call, flat[j].call, p)

\* the connected component of R that holds position i
RECURSIVE Reach(_, _, _)
Reach(flat, p, S) ==
    LET N == S \cup {j \in 1..Len(flat) : \E i \in S : Related(flat, p, i, j)}
    IN  IF N = S THEN S ELSE Reach(flat, p, N)

Component(flat, p, i) == Reach(flat, p, {i})

\* locus order with ties broken by input order (stable sort)
Before(flat, i, j) ==
    \/ VariantCallLt(flat[i].call, flat[j].call)
    \/ ~VariantCallLt(flat[j].call, flat[i].call) /\ i < j

\* the positions of S sorted by locus
RECURSIVE SortByLocus(_, _)
SortByLocus(flat, S) ==
    IF S = {} THEN <<>>
    ELSE LET m == CHOOSE i \in S : \A j \in S \ {i} : Before(flat, i, j)
         IN  <<m>> \o SortByLocus(flat, S \ {m})

\* the smallest member of every component, components in output order
Leaders(flat, p) ==
    SortByLocus(flat, {i \in 1..Len(flat) :
                          \A j \in Component(flat, p, i) \ {i} : Before(flat, i, j)})

\* the calls of a component, sorted by locus
ComponentCalls(flat, members) ==
    LET order == SortByLocus(flat, members)
    IN  [k \in 1..Len(order) |-> flat[order[k]].call]

\* dense component IDs, assigned after sorting
RECURSIVE NumberVariants(_, _)
NumberVariants(callSeqs, k) ==
    IF callSeqs = <<>> THEN <<>>
    ELSE <<[id |-> ToString(k), variant_calls |-> Head(callSeqs)]>>
         \o NumberVariants(Tail(callSeqs), k + 1)

\* the lists a set of positions comes from
Sources(flat, members) == {flat[i].src : i \in members}

\* components, in output order, that satisfy keep
RECURSIVE SelectComponents(_, _, _, _)
SelectComponents(flat, p, leaders, keep) ==
    IF leaders = <<>> THEN <<>>
    ELSE LET members == Component(flat, p, Head(leaders))
             rest    == SelectComponents(flat, p, Tail(leaders), keep)
         IN  IF Sources(flat, members) \in keep
             THEN <<ComponentCalls(flat, members)>> \o rest
             ELSE rest

\* merge_variants_lists: one variant per connected component of R
MergeVariantsLists(ls, p) ==
    LET flat == AllCalls(ls)
    IN  NumberVariants(
            SelectComponents(flat, p, Leaders(flat, p), SUBSET (1..Len(ls))), 1)

\* intersect_variants_lists: the components that touch every input list
IntersectVariantsLists(ls, p) ==
    LET flat == AllCalls(ls)
    IN  NumberVariants(
            SelectComponents(flat, p, Leaders(flat, p), {1..Len(ls)}), 1)

\* the calls of a serialized variant that satisfy keep(call id)
RECURSIVE FilterCalls(_, _)
FilterCalls(calls, keepIds) ==
    IF calls = <<>> THEN <<>>
    ELSE IF Head(calls).id \in keepIds
         THEN <<Head(calls)>> \o FilterCalls(Tail(calls), keepIds)
         ELSE FilterCalls(Tail(calls), keepIds)

\* the variants of a list cut down to the kept calls, under their original
\* IDs; variants left without a call are dropped
RECURSIVE RetainCalls(_, _)
RetainCalls(variantDicts, keepIds) ==
    IF variantDicts = <<>> THEN <<>>
    ELSE LET d    == Head(variantDicts)
             kept == FilterCalls(d.variant_calls, keepIds)
             rest == RetainCalls(Tail(variantDicts), keepIds)
         IN  IF kept = <<>> THEN rest
             ELSE <<[id |-> d.id, variant_calls |-> kept]>> \o rest

\* subtract_variants_list: the calls of a without a match in b
SubtractVariantsList(a, b, p) ==
    LET ta == CallsOfList(a, 1)
        qb == CallsOfList(b, 2)
    IN  RetainCalls(a, {ta[i].call.id : i \in
            {i \in 1..Len(ta) : \A j \in 1..Len(qb) :
                ~IsMatch(ta[i].call, qb[j].call, p)}})

\* compare_variants_lists: <<shared, a_only, b_only>>
CompareVariantsLists(ls, p) ==
    LET flat == AllCalls(ls)
        single(s) == {flat[i].call.id : i \in
                        {i \in 1..Len(flat) :
                            Sources(flat, Component(flat, p, i)) = {s}}}
    IN  << NumberVariants(
               SelectComponents(flat, p, Leaders(flat, p), {{1, 2}}), 1),
           RetainCalls(ls[1], single(1)),
           RetainCalls(ls[2], single(2)) >>

----------------------------------------------------------------------------
(* Python layer: the public operations                                     *)

SerializeAll(vls) == [i \in 1..Len(vls) |-> ToDict(vls[i])]

\* VariantsList.merge / main.merge
Merge(vls, p) == LoadSerializedJson(MergeVariantsLists(SerializeAll(vls), p))

\* VariantsList.intersect / main.intersect
Intersect(vls, p) == LoadSerializedJson(IntersectVariantsLists(SerializeAll(vls), p))

\* VariantsList.subtract with the two serialized lists handed over in the wrong order
SubtractOne_SwapsOperands(self, other, p) ==
    LoadSerializedJson(SubtractVariantsList(ToDict(other), ToDict(self), p))

\* VariantsList.subtract: one query list
SubtractOne(self, other, p) ==
    LoadSerializedJson(SubtractVariantsList(ToDict(self), ToDict(other), p))

\* main.subtract returning the deep copy without the last query applied
RECURSIVE SubtractFold_SkipsLastQuery(_, _, _)
SubtractFold_SkipsLastQuery(acc, queries, p) ==
    IF acc.raised \/ Len(queries) <= 1
    THEN acc
    ELSE SubtractFold_SkipsLastQuery(
             SubtractOne(acc.value, Head(queries), p), Tail(queries), p)

\* main.subtract: deep copy of the target, then one VariantsList.subtract per query
RECURSIVE SubtractFold(_, _, _)
SubtractFold(acc, queries, p) ==
    IF acc.raised \/ queries = <<>>
    THEN acc
    ELSE SubtractFold(SubtractOne(acc.value, Head(queries), p), Tail(queries), p)

\* main.subtract that does not hand match_all_breakpoints on, so that the
\* engine runs with the default (true)
Subtract_DropsMatchAllBreakpoints(target, queries, p) ==
    SubtractFold([raised |-> FALSE, value |-> target], queries,
                 [p EXCEPT !.match_all_breakpoints = TRUE])

\* main.subtract
Subtract(target, queries, p) ==
    SubtractFold([raised |-> FALSE, value |-> target], queries, p)

\* VariantsList.compare that serializes a for both operands
Compare_SerializesATwice(a, b, p) ==
    LoadSerializedJsonList(CompareVariantsLists(<<ToDict(a), ToDict(a)>>, p))

\* VariantsList.compare / main.compare: (shared, a_only, b_only)
Compare(a, b, p) ==
    LoadSerializedJsonList(CompareVariantsLists(<<ToDict(a), ToDict(b)>>, p))

----------------------------------------------------------------------------
(* Inputs                                                                  *)

\* The calls the input lists are built from: the calls of test_merge_2,
\* test_intersect_2 and test_diff_2 with positions scaled down, the swapped
\* translocation of scenario 5 and a run of neighbouring SNVs.
CallPool ==
    { VariantCall("c11", "sample1", "chr1", 1, "chr5", 5, "TRA", -1),
      VariantCall("c12", "sample1", "chr1", 3, "chr1", 4, "DEL", -1),
      VariantCall("c21", "sample2", "chr1", 2, "chr16", 6, "TRA", -1),
      VariantCall("c51", "sample2", "chr5", 5, "chr1", 1, "TRA", -1),
      VariantCall("s1", "sample1", "chr1", 1, "chr1", 1, "SNV", 1),
      VariantCall("s2", "sample2", "chr1", 2, "chr1", 2, "SNV", 1),
      VariantCall("s3", "sample1", "chr1", 3, "chr1", 3, "SNV", 1) }

\* the order the calls stand in, in the files the lists are read from; it is
\* not the order of the loci
PoolOrder ==
    <<"c51", "s3", "c11", "s2", "c12", "s1", "c21", "d22", "d14", "d23",
      "f8", "g3", "f2", "g4", "f5", "u3", "u1", "t61", "t25">>

PoolRank(id) == CHOOSE k \in 1..Len(PoolOrder) : PoolOrder[k] = id

\* the call a variant was created with
Founder(v) ==
    CHOOSE k \in 1..Len(v.variant_calls) : v.id = "variant_" \o v.variant_calls[k].id

\* the MatchParams bundles the operations are run with
ParamSet ==
    [max_neighbor_distance : 0..MaxDistance,
     match_all_breakpoints : BOOLEAN,
     match_variant_types   : BOOLEAN,
     min_ins_size_overlap  : {50},
     min_del_size_overlap  : {50}]

\* the IDs of the calls of a VariantsList (VariantsList.variant_call_ids, as a set)
RECURSIVE VariantCallIds(_)
VariantCallIds(variants) ==
    IF variants = <<>> THEN {}
    ELSE {Head(variants).variant_calls[k].id : k \in 1..Len(Head(variants).variant_calls)}
         \cup VariantCallIds(Tail(variants))

UsedIds == VariantCallIds(lists[1].variants) \cup VariantCallIds(lists[2].variants)

NoResult == [raised |-> FALSE, value |-> <<>>]

NoParams == [max_neighbor_distance |-> 0, match_all_breakpoints |-> TRUE,
             match_variant_types |-> TRUE, min_ins_size_overlap |-> 50,
             min_del_size_overlap |-> 50]

Init ==
    /\ lists = <<EmptyVariantsList, EmptyVariantsList>>
    /\ pc = "build"
    /\ op = "none"
    /\ params = NoParams
    /\ out = NoResult
    /\ uf = <<>>
    /\ num_threads = 0
    /\ tree = <<>>
    /\ todo = {}
    /\ pair = <<>>

\* variant = Variant(id); variant.add_variant_call(c); lists[i].add_variant(variant);
\* the variants of a list are created in the order of the file
AddVariant(i, c) ==
    /\ pc = "build"
    /\ c.id \notin UsedIds
    /\ Cardinality(UsedIds) < MaxCalls
    /\ \A k \in 1..Len(lists[i].variants) :
          LET v == lists[i].variants[k]
          IN  PoolRank(v.variant_calls[Founder(v)].id) < PoolRank(c.id)
    /\ lists' = [lists EXCEPT ![i] =
                    AddVariantTo(@, AddVariantCallTo(NewVariant("variant_" \o c.id), c))]
    /\ UNCHANGED <<pc, op, params, out, uf, todo, num_threads, pair, tree>>

\* lists[i].variants[k].add_variant_call(c); a refused call leaves the variant as it was
AddVariantCall(i, k, c) ==
    /\ pc = "build"
    /\ c.id \notin UsedIds
    /\ Cardinality(UsedIds) < MaxCalls
    /\ k \in 1..Len(lists[i].variants)
    /\ ~AddVariantCallRaises(lists[i].variants[k], c)
    /\ lists' = [lists EXCEPT ![i].variants[k] = AddVariantCallTo(@, c)]
    /\ UNCHANGED <<pc, op, params, out, uf, todo, num_threads, pair, tree>>

Build ==
    \/ \E i \in 1..2, c \in CallPool : AddVariant(i, c)
    \/ \E i \in 1..2, k \in 1..MaxCalls, c \in CallPool : AddVariantCall(i, k, c)

\* variants_list = merge(variants_lists=[lists[1], lists[2]], ...)
DoMerge ==
    /\ pc = "build"
    /\ \E p \in ParamSet :
          /\ params' = p
          /\ out' = Merge(lists, p)
    /\ op' = "merge"
    /\ pc' = "done"
    /\ UNCHANGED <<lists, uf, todo, num_threads, pair, tree>>

\* variants_list = intersect(variants_lists=[lists[1], lists[2]], ...)
DoIntersect ==
    /\ pc = "build"
    /\ \E p \in ParamSet :
          /\ params' = p
          /\ out' = Intersect(lists, p)
    /\ op' = "intersect"
    /\ pc' = "done"
    /\ UNCHANGED <<lists, uf, todo, num_threads, pair, tree>>

\* variants_list = subtract(target_variants_list=lists[1],
\*                          query_variants_lists=[lists[2]], ...)
DoSubtract ==
    /\ pc = "build"
    /\ \E p \in ParamSet :
          /\ params' = p
          /\ out' = Subtract(lists[1], <<lists[2]>>, p)
    /\ op' = "subtract"
    /\ pc' = "done"
    /\ UNCHANGED <<lists, uf, todo, num_threads, pair, tree>>

\* vl_shared, vl_a_only, vl_b_only = compare(a=lists[1], b=lists[2], ...)
DoCompare ==
    /\ pc = "build"
    /\ \E p \in ParamSet :
          /\ params' = p
          /\ out' = Compare(lists[1], lists[2], p)
    /\ op' = "compare"
    /\ pc' = "done"
    /\ UNCHANGED <<lists, uf, todo, num_threads, pair, tree>>

\* merge of one list alone: merge(variants_lists=[lists[1]], ...)
DoMergeSingle ==
    /\ pc = "build"
    /\ \E p \in ParamSet :
          /\ params' = p
          /\ out' = Merge(<<lists[1]>>, p)
    /\ op' = "merge_single"
    /\ pc' = "done"
    /\ UNCHANGED <<lists, uf, todo, num_threads, pair, tree>>

\* merge applied to a list that merge returned, under the same parameters:
\* out holds the first and the second result
DoRemerge ==
    /\ pc = "build"
    /\ \E p \in ParamSet :
          \E first \in {Merge(lists, p)} :
              /\ ~first.raised
              /\ \E second \in {Merge(<<first.value>>, p)} :
                    out' = [raised |-> second.raised,
                            value |-> <<first.value, second.value>>]
              /\ params' = p
    /\ op' = "remerge"
    /\ pc' = "done"
    /\ UNCHANGED <<lists, uf, todo, num_threads, pair, tree>>

\* intersect([subtract(lists[1], [lists[2]]), lists[2]]) under one parameter bundle
DoSubtractIntersect ==
    /\ pc = "build"
    /\ \E p \in ParamSet :
          \E diff \in {Subtract(lists[1], <<lists[2]>>, p)} :
              /\ ~diff.raised
              /\ out' = Intersect(<<diff.value, lists[2]>>, p)
              /\ params' = p
    /\ op' = "subtract_intersect"
    /\ pc' = "done"
    /\ UNCHANGED <<lists, uf, todo, num_threads, pair, tree>>

Next ==
    \/ Build
    \/ DoMerge
    \/ DoIntersect
    \/ DoSubtract
    \/ DoCompare
    \/ DoMergeSingle
    \/ DoRemerge
    \/ DoSubtractIntersect

Spec == Init /\ [][Next]_vars

----------------------------------------------------------------------------
(* Subtract and merge over deletions that carry no variant_size            *)
(* (test_diff_2, test_merge_2), next to a deletion and an SNV elsewhere.   *)

\* variant_size of a call that never had one set (dataclass default)
UnsetSize == -1

\* d14 against d22: far at breakpoint 1, near at breakpoint 2;
\* d14 against d23: near at both breakpoints
DeletionCallPool ==
    { VariantCall("d14", "sample1", "chr10", 3, "chr10", 5, "DEL", UnsetSize),
      VariantCall("d22", "sample2", "chr10", 1, "chr10", 6, "DEL", UnsetSize),
      VariantCall("d23", "sample2", "chr10", 4, "chr10", 6, "DEL", UnsetSize),
      VariantCall("c12", "sample1", "chr1", 3, "chr1", 4, "DEL", UnsetSize),
      VariantCall("s3", "sample1", "chr1", 3, "chr1", 3, "SNV", 1) }

BuildDeletions ==
    \/ \E i \in 1..2, c \in DeletionCallPool : AddVariant(i, c)
    \/ \E i \in 1..2, k \in 1..MaxCalls, c \in DeletionCallPool : AddVariantCall(i, k, c)

NextDeletions ==
    \/ BuildDeletions
    \/ DoSubtract
    \/ DoMerge

SpecDeletions == Init /\ [][NextDeletions]_vars

----------------------------------------------------------------------------
(* The clustering as the worker pool runs it (specification sections       *)
(* 4.4.1 and 5): the confirmed edges are united one critical section at a  *)
(* time, in whatever order the workers reach them; the coordinator builds  *)
(* the output after the pool has drained.                                  *)

\* representative of the set of position i
UfFind(u, i) == u[i]

\* union that moves b alone and leaves the other members of its set behind
UfUnion_MovesOneMember(u, a, b) ==
    IF UfFind(u, a) = UfFind(u, b) THEN u
    ELSE [u EXCEPT ![b] = UfFind(u, a)]

\* union of the sets of a and b: the members of the set of b take the
\* representative of a, so the representative depends on who came first
UfUnion(u, a, b) ==
    IF UfFind(u, a) = UfFind(u, b) THEN u
    ELSE [i \in 1..Len(u) |-> IF UfFind(u, i) = UfFind(u, b) THEN UfFind(u, a) ELSE u[i]]

\* the set of i
UfClass(u, i) == {j \in 1..Len(u) : UfFind(u, j) = UfFind(u, i)}

\* the smallest member of every set, sets in output order
UfLeaders(flat, u) ==
    SortByLocus(flat, {i \in 1..Len(flat) :
                          \A j \in UfClass(u, i) \ {i} : Before(flat, i, j)})

\* the sets, in output order, that satisfy keep
RECURSIVE UfSelect(_, _, _, _)
UfSelect(flat, u, leaders, keep) ==
    IF leaders = <<>> THEN <<>>
    ELSE LET members == UfClass(u, Head(leaders))
             rest    == UfSelect(flat, u, Tail(leaders), keep)
         IN  IF Sources(flat, members) \in keep
             THEN <<ComponentCalls(flat, members)>> \o rest
             ELSE rest

\* what the coordinator hands back for the operation called
UfOutput(kind, vls, u) ==
    LET ls   == SerializeAll(vls)
        flat == AllCalls(ls)
        single(s) == {flat[i].call.id : i \in
                        {i \in 1..Len(flat) : Sources(flat, UfClass(u, i)) = {s}}}
    IN  IF kind = "merge"
        THEN LoadSerializedJson(NumberVariants(
                 UfSelect(flat, u, UfLeaders(flat, u), SUBSET (1..Len(ls))), 1))
        ELSE IF kind = "intersect"
        THEN LoadSerializedJson(NumberVariants(
                 UfSelect(flat, u, UfLeaders(flat, u), {1..Len(ls)}), 1))
        ELSE LoadSerializedJsonList(
                 << NumberVariants(UfSelect(flat, u, UfLeaders(flat, u), {{1, 2}}), 1),
                    RetainCalls(ls[1], single(1)),
                    RetainCalls(ls[2], single(2)) >>)

\* entry of a clustering operation (merge, intersect or compare; they share
\* this phase) with a pool of n workers: every call is a set of its own; the
\* edges are the pairs the oracle confirms
StartWorkers(n, p) ==
    /\ pc = "build"
    /\ pc' = "workers"
    /\ params' = p
    /\ num_threads' = n
    /\ LET flat == AllCalls(SerializeAll(lists))
       IN  /\ uf' = [i \in 1..Len(flat) |-> i]
           /\ todo' = {{e[1], e[2]} : e \in {x \in (1..Len(flat)) \X (1..Len(flat)) :
                                                  Related(flat, p, x[1], x[2])}}
    /\ UNCHANGED <<lists, op, out, pair, tree>>

\* worker w, processing call a, has found b and unites the two under the
\* lock. The pair is found from both ends; the later of the two finds a and b
\* in one set already and changes nothing, so it is not a step of its own.
Union(w, a, b) ==
    /\ pc = "workers"
    /\ w \in 1..num_threads
    /\ {a, b} \in todo
    /\ uf' = UfUnion(uf, a, b)
    /\ todo' = todo \ {{a, b}}
    /\ UNCHANGED <<lists, pc, op, params, out, num_threads, pair, tree>>

\* the pool has drained: the coordinator builds the output of the operation
\* that was called
Coordinator(kind) ==
    /\ pc = "workers"
    /\ todo = {}
    /\ pc' = "done"
    /\ op' = kind
    /\ out' = UfOutput(kind, lists, uf)
    /\ UNCHANGED <<lists, params, uf, todo, num_threads, pair, tree>>

\* the inputs of the worker pool: lists of one-call variants over the
\* translocations that share one breakpoint and the three neighbouring SNVs
WorkerCallPool == {c \in CallPool : c.id \in {"c11", "c21", "s1", "s2", "s3"}}

BuildSingles == \E i \in 1..2, c \in WorkerCallPool : AddVariant(i, c)

NextWorkers ==
    \/ BuildSingles
    \/ \E n \in 1..MaxThreads, p \in ParamSet : StartWorkers(n, p)
    \/ \E w \in 1..MaxThreads, a, b \in 1..Len(uf) : Union(w, a, b)
    \/ \E kind \in {"merge", "intersect", "compare"} : Coordinator(kind)

SpecWorkers == Init /\ [][NextWorkers]_vars

----------------------------------------------------------------------------
(* The match oracle on its own: two calls and a parameter bundle drawn     *)
(* from bounded sets, and the oracle applied to them.                      *)

OracleChromosomes == {"chr1", "chr5"}

\* variant type and variant_size of the calls handed to the oracle
OracleKinds == {<<"TRA", -1>>, <<"DEL", -1>>, <<"INS", 2>>}

OracleCalls(id, sample) ==
    {VariantCall(id, sample, c1, p1, c2, p2, k[1], k[2]) :
        c1 \in OracleChromosomes, p1 \in 1..MaxPos,
        c2 \in OracleChromosomes, p2 \in 1..MaxPos, k \in OracleKinds}

InitOracle ==
    /\ lists = <<EmptyVariantsList, EmptyVariantsList>>
    /\ pc = "oracle"
    /\ op = "none"
    /\ params \in ParamSet
    /\ out = NoResult
    /\ uf = <<>>
    /\ todo = {}
    /\ num_threads = 0
    /\ tree = <<>>
    /\ pair \in OracleCalls("a", "sample1") \X OracleCalls("b", "sample2")

\* the oracle decides whether the two calls are the same event
Match ==
    /\ pc = "oracle"
    /\ pc' = "done"
    /\ op' = "match"
    /\ out' = [raised |-> FALSE, value |-> IsMatch(pair[1], pair[2], params)]
    /\ UNCHANGED <<lists, params, uf, todo, num_threads, pair, tree>>

NextOracle == Match

SpecOracle == InitOracle /\ [][NextOracle]_vars

----------------------------------------------------------------------------
(* The match oracle on calls of every type and size: both calls have their *)
(* two breakpoints at one position of chr1, so that the type step and the  *)
(* size step decide.                                                       *)

\* VariantTypes.ALL
AllVariantTypes == {"SNV", "MNV", "INS", "DEL", "INV", "DUP", "TRA", "BND"}

\* variant_size: unset (-1), zero, and two sizes whose ratio is 0.6
OracleSizes == {-1, 0, 60, 100}

\* size-overlap thresholds in percent: the default 0.5, and 0.8
OracleThresholds == {50, 80}

OracleKindCalls(id, sample, positions) ==
    {VariantCall(id, sample, "chr1", p, "chr1", p, t, sz) :
        p \in positions, t \in AllVariantTypes, sz \in OracleSizes}

OracleKindParamSet ==
    [max_neighbor_distance : 0..MaxDistance,
     match_all_breakpoints : BOOLEAN,
     match_variant_types   : BOOLEAN,
     min_ins_size_overlap  : OracleThresholds,
     min_del_size_overlap  : OracleThresholds]

InitOracleKinds ==
    /\ lists = <<EmptyVariantsList, EmptyVariantsList>>
    /\ pc = "oracle"
    /\ op = "none"
    /\ params \in OracleKindParamSet
    /\ out = NoResult
    /\ uf = <<>>
    /\ todo = {}
    /\ num_threads = 0
    /\ tree = <<>>
    /\ pair \in OracleKindCalls("a", "sample1", {1})
                 \X OracleKindCalls("b", "sample2", 1..MaxPos)

SpecOracleKinds == InitOracleKinds /\ [][NextOracle]_vars

----------------------------------------------------------------------------
(* Spatial index over the breakpoints of a list (src/vstolib/index.py):    *)
(* a dictionary chromosome -> interval tree whose intervals carry the row  *)
(* number of the call. The intervals are those of the intervaltree         *)
(* package: begin included, end excluded, and an interval that is empty    *)
(* (begin >= end) is refused.                                              *)

\* VariantsList.to_dataframe: one row per call, in list order
ToDataFrame(vl) ==
    LET flat == CallsOfList(ToDict(vl), 1)
    IN  [i \in 1..Len(flat) |-> flat[i].call]

\* tree[k][begin:end] = data, after "if k not in tree: tree[k] = IntervalTree()"
TreeAdd(t, k, begin, end, data) ==
    IF begin >= end
    THEN [raised |-> TRUE, value |-> t]
    ELSE [raised |-> FALSE,
          value |-> [c \in (DOMAIN t) \cup {k} |->
                        IF c = k
                        THEN (IF k \in DOMAIN t THEN t[k] ELSE {}) \cup {<<begin, end, data>>}
                        ELSE t[c]]]

\* index_variants_list: both breakpoints of every row, widened by buffer
RECURSIVE IndexRows(_, _, _, _)
IndexRows(df, i, buffer, t) ==
    IF i > Len(df) THEN [raised |-> FALSE, value |-> t]
    ELSE LET row   == df[i]
             first == TreeAdd(t, row.chromosome_1,
                              row.position_1 - buffer, row.position_1 + buffer, i - 1)
         IN  IF first.raised THEN first
             ELSE LET second == TreeAdd(first.value, row.chromosome_2,
                                        row.position_2 - buffer, row.position_2 + buffer, i - 1)
                  IN  IF second.raised THEN second
                      ELSE IndexRows(df, i + 1, buffer, second.value)

index_variants_list(df, buffer) == IndexRows(df, 1, buffer, <<>>)

\* the row numbers of the intervals of chromosome k that hold position pos;
\* a chromosome without a tree gives the empty set
QueryIndex(t, k, pos) ==
    IF k \notin DOMAIN t THEN {}
    ELSE {iv[3] : iv \in {x \in t[k] : x[1] <= pos /\ pos < x[2]}}

\* the calls the index is built over
IndexCallPool ==
    {c \in CallPool : c.id \in {"c11", "c51", "c21", "s1", "s2", "s3"}}

\* the chromosomes queried; no call of the pool lies on chr10
QueryChromosomes == {"chr1", "chr5", "chr16", "chr10"}

\* the positions queried: those of the pool and one beyond at either end
QueryPositions == 0..7

BuildRows == \E c \in IndexCallPool : AddVariant(1, c)

\* tree = index_variants_list(df=lists[1].to_dataframe(), buffer=buffer)
DoIndex(buffer) ==
    /\ pc = "build"
    /\ \E r \in {index_variants_list(ToDataFrame(lists[1]), buffer)} :
          /\ tree' = IF r.raised THEN <<>> ELSE r.value
          /\ out' = [raised |-> r.raised, value |-> <<>>]
          /\ pc' = IF r.raised THEN "done" ELSE "indexed"
    /\ op' = "index"
    /\ params' = [buffer |-> buffer]
    /\ UNCHANGED <<lists, uf, todo, num_threads, pair>>

\* the records near position pos of chromosome k
DoQuery(k, pos) ==
    /\ pc = "indexed"
    /\ pc' = "done"
    /\ op' = "query"
    /\ params' = [buffer |-> params.buffer, chromosome |-> k, position |-> pos]
    /\ out' = [raised |-> FALSE, value |-> QueryIndex(tree, k, pos)]
    /\ UNCHANGED <<lists, uf, todo, num_threads, pair, tree>>

NextIndex ==
    \/ BuildRows
    \/ \E buffer \in 0..MaxDistance : DoIndex(buffer)
    \/ \E k \in QueryChromosomes, pos \in QueryPositions : DoQuery(k, pos)

SpecIndex == Init /\ [][NextIndex]_vars

----------------------------------------------------------------------------
(* Vocabulary of the properties                                            *)

\* the calls of a VariantsList, as a set of records
RECURSIVE CallSet(_)
CallSet(variants) ==
    IF variants = <<>> THEN {}
    ELSE {Head(variants).variant_calls[k] : k \in 1..Len(Head(variants).variant_calls)}
         \cup CallSet(Tail(variants))

\* how many calls a VariantsList holds, repetitions counted
RECURSIVE NumCalls(_)
NumCalls(variants) ==
    IF variants = <<>> THEN 0
    ELSE Len(Head(variants).variant_calls) + NumCalls(Tail(variants))

\* the call IDs of one variant
IdsOf(v) == {v.variant_calls[k].id : k \in 1..Len(v.variant_calls)}

\* the grouping of call IDs a VariantsList stands for, variant IDs forgotten
PartitionOf(vl) == {IdsOf(vl.variants[i]) : i \in 1..Len(vl.variants)}

\* no call ID occurs in two places of the list
NoCallTwice(vl) == NumCalls(vl.variants) = Cardinality(VariantCallIds(vl.variants))

InputCalls == CallSet(lists[1].variants) \cup CallSet(lists[2].variants)

\* the IDs reachable from the IDs in S by chains of oracle matches within cs
RECURSIVE ChainedIds(_, _, _)
ChainedIds(cs, p, S) ==
    LET N == S \cup {b.id : b \in {b \in cs : \E a \in cs :
                        a.id \in S /\ a.id # b.id /\ IsMatch(a, b, p)}}
    IN  IF N = S THEN S ELSE ChainedIds(cs, p, N)

\* the connected components of the match relation over the calls cs
ComponentsOf(cs, p) == {ChainedIds(cs, p, {c.id}) : c \in cs}

\* a call of list i has its ID in the set S
Touches(i, S) == S \cap VariantCallIds(lists[i].variants) # {}

----------------------------------------------------------------------------
(* Properties of the set-algebra operations                                *)

\* the list merge returned groups the input calls into a partition
IsPartitionOfInputs(vl) ==
    /\ NoCallTwice(vl)
    /\ CallSet(vl.variants) = InputCalls
    /\ {} \notin PartitionOf(vl)

\* C1: merge partitions the input calls: every input call is in exactly one
\* output variant, no call is there twice, and no other call is in the output.
C1_MergePartitionsInputs ==
    op = "merge" => ~out.raised /\ IsPartitionOfInputs(out.value)

\* C2: the variants merge returns are exactly the connected components of
\* the oracle's match relation over the union of the input calls.
C2_MergeIsComponents ==
    op = "merge" =>
        /\ ~out.raised
        /\ NoCallTwice(out.value)
        /\ PartitionOf(out.value) = ComponentsOf(InputCalls, params)

\* the components of the merge that hold a call of both input lists
SpanningComponents ==
    {S \in ComponentsOf(InputCalls, params) : Touches(1, S) /\ Touches(2, S)}

\* C3: intersect returns exactly the components of the merge that hold a
\* call of every input list, each with all of its member calls.
C3_IntersectIsSpanningComponents ==
    op = "intersect" =>
        /\ ~out.raised
        /\ NoCallTwice(out.value)
        /\ PartitionOf(out.value) = SpanningComponents

\* the calls of variant v that have no oracle match among the calls qs
Survivors(v, qs, p) ==
    {c \in CallSet(<<v>>) : \A q \in qs : ~IsMatch(c, q, p)}

\* vl holds, under the variant IDs of the list src, exactly the calls that
\* keep(variant) names, and no variant without calls
KeepsUnderOriginalIds(vl, src, keep(_)) ==
    /\ NoCallTwice(vl)
    /\ \A i \in 1..Len(src.variants) :
          LET kept == keep(src.variants[i])
              same == {j \in 1..Len(vl.variants) : vl.variants[j].id = src.variants[i].id}
          IN  IF kept = {}
              THEN same = {}
              ELSE /\ Cardinality(same) = 1
                   /\ \A j \in same : CallSet(<<vl.variants[j]>>) = kept
    /\ \A j \in 1..Len(vl.variants) :
          \E i \in 1..Len(src.variants) : src.variants[i].id = vl.variants[j].id

\* C4: subtract(T, Q) returns exactly the calls of T without an oracle match
\* in Q, each under the variant ID it had in T; a variant of T without a
\* surviving call is absent.
C4_SubtractKeepsUnmatched ==
    op = "subtract" =>
        /\ ~out.raised
        /\ LET keep(v) == Survivors(v, CallSet(lists[2].variants), params)
           IN  KeepsUnderOriginalIds(out.value, lists[1], keep)

\* a subtract that removed one call of a two-call variant and kept the other
\* under the variant's ID
C4_Witness ==
    /\ op = "subtract"
    /\ ~out.raised
    /\ \E i \in 1..Len(lists[1].variants), j \in 1..Len(out.value.variants) :
          /\ out.value.variants[j].id = lists[1].variants[i].id
          /\ Len(out.value.variants[j].variant_calls) = 1
          /\ Len(lists[1].variants[i].variant_calls) = 2

\* C5: compare(A, B) = (S, A', B') is a three-way partition: every call of A
\* is in exactly one of S and A', every call of B in exactly one of S and
\* B', and every variant of S holds a call of A and a call of B.
C5_CompareThreeWayPartition ==
    op = "compare" =>
        /\ ~out.raised
        /\ LET S  == out.value[1]
               Ao == out.value[2]
               Bo == out.value[3]
               inS  == VariantCallIds(S.variants)
               inAo == VariantCallIds(Ao.variants)
               inBo == VariantCallIds(Bo.variants)
               idsA == VariantCallIds(lists[1].variants)
               idsB == VariantCallIds(lists[2].variants)
           IN  /\ NoCallTwice(S) /\ NoCallTwice(Ao) /\ NoCallTwice(Bo)
               /\ inAo \subseteq idsA /\ inBo \subseteq idsB
               /\ idsA \subseteq (inS \cup inAo) /\ inS \cap inAo = {}
               /\ idsB \subseteq (inS \cup inBo) /\ inS \cap inBo = {}
               /\ inS \subseteq (idsA \cup idsB)
               /\ \A X \in PartitionOf(S) : Touches(1, X) /\ Touches(2, X)

\* C6: intersect([subtract(A, B), B]) under the parameters of the subtract
\* is empty.
C6_SubtractThenIntersectEmpty ==
    op = "subtract_intersect" => ~out.raised /\ out.value.variants = <<>>

\* the law applied where A and B do intersect and the subtract left calls of A
C6_Witness ==
    /\ op = "subtract_intersect"
    /\ ~out.raised
    /\ \E direct \in {Intersect(lists, params)} :
          ~direct.raised /\ direct.value.variants # <<>>
    /\ Subtract(lists[1], <<lists[2]>>, params).value.variants # <<>>

SameUpToIds(r1, r2) ==
    /\ r1.raised = r2.raised
    /\ ~r1.raised => PartitionOf(r1.value) = PartitionOf(r2.value)

\* C8: merge, intersect and compare do not depend on the order of their
\* inputs, up to component IDs; swapping the operands of compare swaps
\* a_only and b_only.
C8_InputOrderIrrelevant ==
    /\ op = "merge" => SameUpToIds(out, Merge(<<lists[2], lists[1]>>, params))
    /\ op = "intersect" => SameUpToIds(out, Intersect(<<lists[2], lists[1]>>, params))
    /\ op = "compare" =>
          \E sw \in {Compare(lists[2], lists[1], params)} :
              /\ sw.raised = out.raised
              /\ ~out.raised =>
                    /\ PartitionOf(sw.value[1]) = PartitionOf(out.value[1])
                    /\ ToDict(sw.value[2]) = ToDict(out.value[3])
                    /\ ToDict(sw.value[3]) = ToDict(out.value[2])

\* a compare with a shared variant and a call left in a_only
C8_Witness ==
    /\ op = "compare"
    /\ ~out.raised
    /\ out.value[1].variants # <<>>
    /\ out.value[2].variants # <<>>
    /\ lists[1] # lists[2]

\* C9: for fixed inputs and parameters every schedule of the worker pool,
\* whatever num_threads and whatever the order of the union-find updates,
\* ends with the result that is a function of the inputs and the parameters
\* alone: same components, same order of the output variants, same IDs.
C9_ScheduleIndependent ==
    (pc = "done" /\ num_threads > 0) =>
        /\ op = "merge" => out = Merge(lists, params)
        /\ op = "intersect" => out = Intersect(lists, params)
        /\ op = "compare" => out = Compare(lists[1], lists[2], params)

\* a pool of two workers has finished a merge that put three calls in one
\* variant, and the representative the updates left is not the smallest call
C9_Witness ==
    /\ pc = "done"
    /\ num_threads = 2
    /\ op = "merge"
    /\ ~out.raised
    /\ \E i \in 1..Len(uf) :
          /\ Cardinality(UfClass(uf, i)) >= 3
          /\ \E j \in UfClass(uf, i) : Before(AllCalls(SerializeAll(lists)), j, uf[i])

\* breakpoint k of a call
End(c, k) ==
    IF k = 1 THEN [chromosome |-> c.chromosome_1, position |-> c.position_1]
    ELSE [chromosome |-> c.chromosome_2, position |-> c.position_2]

\* the direct and the swapped alignment: which breakpoint of b stands
\* against breakpoints 1 and 2 of a
Alignments == {<<1, 2>>, <<2, 1>>}

Feasible(a, b, al) ==
    /\ End(a, 1).chromosome = End(b, al[1]).chromosome
    /\ End(a, 2).chromosome = End(b, al[2]).chromosome

Delta(a, b, al, k) == Abs(End(a, k).position - End(b, al[k]).position)

\* the two calls pass the type step and the size step, so that the oracle's
\* answer is the answer of the breakpoint step
BreakpointStepDecides ==
    /\ op = "match"
    /\ TypesMatch(pair[1], pair[2], params)
    /\ SizesMatch(pair[1], pair[2], params)

SameChromosomePairs(a, b) ==
    \/ a.chromosome_1 = b.chromosome_1 /\ a.chromosome_2 = b.chromosome_2
    \/ a.chromosome_1 = b.chromosome_2 /\ a.chromosome_2 = b.chromosome_1

\* the two calls have a chromosome in common
ShareAChromosome(a, b) ==
    {a.chromosome_1, a.chromosome_2} \cap {b.chromosome_1, b.chromosome_2} # {}

OneBreakpointNear(t, q, D) ==
    \E i, j \in 1..2 :
        /\ End(t, i).chromosome = End(q, j).chromosome
        /\ Abs(End(t, i).position - End(q, j).position) <= D

C12_WitnessOtherType ==
    /\ op = "subtract"
    /\ ~params.match_all_breakpoints
    /\ ~params.match_variant_types
    /\ ~out.raised
    /\ "c11" \in VariantCallIds(lists[1].variants)
    /\ VariantCallIds(lists[2].variants) = {"s2"}
    /\ "c11" \notin VariantCallIds(out.value.variants)

\* the classes of variant types of the type step
TypeClasses == {{"SNV"}, {"MNV"}, {"INS", "DUP"}, {"DEL"}, {"BND", "INV", "TRA"}}

SameTypeClass(t, u) == \E cls \in TypeClasses : t \in cls /\ u \in cls

\* both pairs of the direct alignment lie within max_neighbor_distance
DirectlyNear(a, b, D) ==
    /\ a.chromosome_1 = b.chromosome_1 /\ Abs(a.position_1 - b.position_1) <= D
    /\ a.chromosome_2 = b.chromosome_2 /\ Abs(a.position_2 - b.position_2) <= D

\* the size step applies to the two calls: both in {INS, DUP}, or both DEL
SizeStepApplies(a, b) ==
    \/ a.variant_type \in {"INS", "DUP"} /\ b.variant_type \in {"INS", "DUP"}
    \/ a.variant_type = "DEL" /\ b.variant_type = "DEL"

\* C13: with match_variant_types true two calls match only if their types
\* are in one class of {SNV}, {MNV}, {INS, DUP}, {DEL}, {BND, INV, TRA}, and
\* near calls of one class do match (INS matches DUP of the same size, DEL
\* never matches INS); with match_variant_types false near calls match
\* whatever their types, unless the size step applies to them.
C13_TypeGrouping ==
    op = "match" =>
        LET a == pair[1]
            b == pair[2]
            near == DirectlyNear(a, b, params.max_neighbor_distance)
        IN  /\ (params.match_variant_types /\ out.value)
                  => SameTypeClass(a.variant_type, b.variant_type)
            /\ (/\ params.match_variant_types
                /\ SameTypeClass(a.variant_type, b.variant_type)
                /\ near
                /\ SizeStepApplies(a, b) => (a.variant_size = b.variant_size /\ a.variant_size > 0))
                  => out.value
            /\ (~params.match_variant_types /\ near /\ ~SizeStepApplies(a, b))
                  => out.value

\* an INS and a DUP of one size at one locus matched with match_variant_types true
C13_Witness ==
    /\ op = "match"
    /\ params.match_variant_types
    /\ pair[1].variant_type = "INS"
    /\ pair[2].variant_type = "DUP"
    /\ pair[1].variant_size = 100 /\ pair[2].variant_size = 100
    /\ pair[1].position_1 = pair[2].position_1
    /\ out.value

\* both sizes are known and min(size)/max(size) >= pct/100
RatioAtLeast(a, b, pct) ==
    /\ a.variant_size > 0
    /\ b.variant_size > 0
    /\ Min2(a.variant_size, b.variant_size) * 100
          >= pct * Max2(a.variant_size, b.variant_size)

BothInsDup(a, b) ==
    a.variant_type \in {"INS", "DUP"} /\ b.variant_type \in {"INS", "DUP"}

BothDel(a, b) == a.variant_type = "DEL" /\ b.variant_type = "DEL"

\* C14 as stated: two calls of class {INS, DUP} match only if
\* s >= min_ins_size_overlap, two DEL calls only if s >= min_del_size_overlap,
\* with s = 0 whenever either size is zero or unknown.
C14_SizeReciprocity ==
    op = "match" =>
        /\ (BothInsDup(pair[1], pair[2]) /\ out.value)
              => RatioAtLeast(pair[1], pair[2], params.min_ins_size_overlap)
        /\ (BothDel(pair[1], pair[2]) /\ out.value)
              => RatioAtLeast(pair[1], pair[2], params.min_del_size_overlap)

\* C14 amended: two calls of class {INS, DUP} match only if
\* s = min(size)/max(size) >= min_ins_size_overlap, two DEL calls only if
\* s >= min_del_size_overlap, where s = 0 whenever a size is zero or exactly
\* one of the sizes is unknown; the exception are two calls whose sizes are
\* both unset (-1), which the size step does not refuse. Near calls with
\* known sizes and s at or above the threshold match. For every other pair
\* of classes the sizes are ignored.
C14_SizeReciprocityAmended ==
    op = "match" =>
        LET a == pair[1]
            b == pair[2]
            near == DirectlyNear(a, b, params.max_neighbor_distance)
            bothUnset == a.variant_size = -1 /\ b.variant_size = -1
        IN  /\ (BothInsDup(a, b) /\ out.value)
                  => (RatioAtLeast(a, b, params.min_ins_size_overlap) \/ bothUnset)
            /\ (BothDel(a, b) /\ out.value)
                  => (RatioAtLeast(a, b, params.min_del_size_overlap) \/ bothUnset)
            /\ (BothInsDup(a, b) /\ near /\ RatioAtLeast(a, b, params.min_ins_size_overlap))
                  => out.value
            /\ (BothDel(a, b) /\ near /\ RatioAtLeast(a, b, params.min_del_size_overlap))
                  => out.value
            /\ (~BothInsDup(a, b) /\ ~BothDel(a, b))
                  => (out.value <=>
                        /\ near
                        /\ params.match_variant_types
                              => SameTypeClass(a.variant_type, b.variant_type))

\* insertions of sizes 100 and 60 at one locus: matched at the threshold 0.5
\* although the deletion threshold is 0.8
C14_Witness ==
    /\ op = "match"
    /\ pair[1].variant_type = "INS" /\ pair[2].variant_type = "INS"
    /\ pair[1].variant_size = 100 /\ pair[2].variant_size = 60
    /\ pair[1].position_1 = pair[2].position_1
    /\ params.min_ins_size_overlap = 50
    /\ params.min_del_size_overlap = 80
    /\ out.value

\* the same insertions refused at the threshold 0.8
C14_WitnessRefused ==
    /\ op = "match"
    /\ pair[1].variant_type = "INS" /\ pair[2].variant_type = "INS"
    /\ pair[1].variant_size = 100 /\ pair[2].variant_size = 60
    /\ pair[1].position_1 = pair[2].position_1
    /\ params.min_ins_size_overlap = 80
    /\ ~out.value

\* the breakpoints of the two calls satisfy the distance rule of the
\* parameters: both pairs of an alignment near, or one pair near
DistanceRuleHolds(a, b, p) ==
    IF p.match_all_breakpoints
    THEN \E al \in Alignments :
            /\ Feasible(a, b, al)
            /\ \A k \in 1..2 : Delta(a, b, al, k) <= p.max_neighbor_distance
    ELSE OneBreakpointNear(a, b, p.max_neighbor_distance)

UnsetDeletion(c) == c.variant_type = "DEL" /\ c.variant_size = UnsetSize

\* C15: two DEL calls whose variant_size was never set and whose breakpoints
\* satisfy the distance rule are the same event under the default size
\* thresholds: subtract removes such a target DEL against such a query DEL,
\* and merge puts the two in one variant, which holds none of the calls on
\* another chromosome.
C15_UnsetDeletionsMatch ==
    /\ op = "subtract" =>
          \A t \in CallSet(lists[1].variants) :
              (/\ UnsetDeletion(t)
               /\ \E q \in CallSet(lists[2].variants) :
                     UnsetDeletion(q) /\ DistanceRuleHolds(t, q, params))
              => t.id \notin VariantCallIds(out.value.variants)
    /\ op = "merge" =>
          /\ ~out.raised
          /\ \A x, y \in InputCalls :
                (/\ UnsetDeletion(x) /\ UnsetDeletion(y)
                 /\ x.id # y.id
                 /\ DistanceRuleHolds(x, y, params))
                => \E g \in PartitionOf(out.value) : x.id \in g /\ y.id \in g
          /\ \A g \in PartitionOf(out.value) :
                "d14" \in g => g \subseteq {"d14", "d22", "d23"}

\* subtract with match_all_breakpoints false and match_variant_types true
\* removed the deletion that is near the query deletion at one breakpoint only
C15_Witness ==
    /\ op = "subtract"
    /\ ~params.match_all_breakpoints
    /\ params.match_variant_types
    /\ params.max_neighbor_distance = 1
    /\ "d14" \in VariantCallIds(lists[1].variants)
    /\ VariantCallIds(lists[2].variants) = {"d22"}
    /\ "d14" \notin VariantCallIds(out.value.variants)

\* merge with match_all_breakpoints true formed the variant of the two near
\* deletions next to another variant
C15_WitnessMerge ==
    /\ op = "merge"
    /\ params.match_all_breakpoints
    /\ params.match_variant_types
    /\ ~out.raised
    /\ {"d14", "d23"} \in PartitionOf(out.value)
    /\ Len(out.value.variants) >= 2

\* the row numbers (from 0) of the calls of list 1 that have a breakpoint on
\* chromosome k at distance at most D from pos
RowsNear(k, pos, D) ==
    LET df == ToDataFrame(lists[1])
    IN  {i - 1 : i \in {j \in 1..Len(df) :
            \/ df[j].chromosome_1 = k /\ Abs(df[j].position_1 - pos) <= D
            \/ df[j].chromosome_2 = k /\ Abs(df[j].position_2 - pos) <= D}}

\* C16: the index is built for every padding D >= 0, and a query for
\* chromosome K and position P returns exactly the records with an indexed
\* breakpoint on K at distance at most D from P, distance D included; a
\* chromosome without records gives the empty set.
C16_IndexQuery ==
    /\ op = "index" => ~out.raised
    /\ op = "query" =>
          out.value = RowsNear(params.chromosome, params.position, params.buffer)

\* what the index does return: the records with pos - D <= P < pos + D
C16_HalfOpenQuery ==
    op = "query" =>
        out.value =
            LET df == ToDataFrame(lists[1])
                k  == params.chromosome
                P  == params.position
                D  == params.buffer
            IN  {i - 1 : i \in {j \in 1..Len(df) :
                    \/ /\ df[j].chromosome_1 = k
                       /\ df[j].position_1 - D <= P /\ P < df[j].position_1 + D
                    \/ /\ df[j].chromosome_2 = k
                       /\ df[j].position_2 - D <= P /\ P < df[j].position_2 + D}}

----------------------------------------------------------------------------
(* Overlap against regions: GenomicRange, GenomicRangesList,               *)
(* VariantsList.overlap, main.overlap, main.filter_excluded_regions        *)

MaxPadding == 1      \* the padding asked for ranges over 0..MaxPadding

\* GenomicRange(chromosome, start, end)
GenomicRange(chromosome, start, end) ==
    [chromosome |-> chromosome, start |-> start, end |-> end]

\* GenomicRange.id: '%s:%i-%i' % (chromosome, start, end)
GenomicRangeId(r) ==
    r.chromosome \o ":" \o ToString(r.start) \o "-" \o ToString(r.end)

\* GenomicRange.overlaps(chromosome, start, end)
Overlaps(r, chromosome, start, end) ==
    chromosome = r.chromosome /\ start <= r.end /\ end >= r.start

\* d[k] of a dictionary kept as a sequence of <<key, value>> entries
DictGet(d, k, default) ==
    IF \E i \in 1..Len(d) : d[i][1] = k
    THEN d[CHOOSE i \in 1..Len(d) : d[i][1] = k][2]
    ELSE default

\* GenomicRangesList(): genomic_ranges_map is chromosome -> list of ranges,
\* _genomic_ranges_map is range ID -> (chromosome, 0-based index)
EmptyGenomicRangesList == [genomic_ranges_map |-> <<>>, ids |-> <<>>]

\* GenomicRangesList.add_genomic_range
AddGenomicRange(grl, r) ==
    LET curr == DictGet(grl.genomic_ranges_map, r.chromosome, <<>>)
    IN  [genomic_ranges_map |-> DictSet(grl.genomic_ranges_map, r.chromosome, Append(curr, r)),
         ids |-> DictSet(grl.ids, GenomicRangeId(r), <<r.chromosome, Len(curr)>>)]

\* GenomicRangesList.load_dataframe: the rows are added one by one
RECURSIVE LoadDataframe(_, _)
LoadDataframe(rows, grl) ==
    IF rows = <<>> THEN grl
    ELSE LoadDataframe(Tail(rows), AddGenomicRange(grl, Head(rows)))

\* GenomicRangesList.get_genomic_range
GetGenomicRange(grl, id) ==
    LET entry == DictGet(grl.ids, id, <<>>)
    IN  DictGet(grl.genomic_ranges_map, entry[1], <<>>)[entry[2] + 1]

\* GenomicRangesList.to_dict: chromosome -> list of range dictionaries, in
\* insertion order; the ID map is not serialized
GenomicRangesToDict(grl) == grl.genomic_ranges_map

\* the ranges of a serialized GenomicRangesList in dictionary order
RECURSIVE FlattenRanges(_)
FlattenRanges(rangesDict) ==
    IF rangesDict = <<>> THEN <<>>
    ELSE Head(rangesDict)[2] \o FlattenRanges(Tail(rangesDict))

\* engine: a call lies in a range widened by P at one of its two breakpoints
RangeHit(c, r, P) ==
    \/ Overlaps(r, c.chromosome_1, c.position_1 - P, c.position_1 + P)
    \/ Overlaps(r, c.chromosome_2, c.position_2 - P, c.position_2 + P)

\* engine: the IDs of the ranges one call hits, every distinct range once
HitRangeIds(c, ranges, P) ==
    LET first(i) == \A j \in 1..(i - 1) : GenomicRangeId(ranges[j]) # GenomicRangeId(ranges[i])
        idx == {i \in 1..Len(ranges) : RangeHit(c, ranges[i], P) /\ first(i)}
        RECURSIVE Pick(_)
        Pick(i) == IF i > Len(ranges) THEN <<>>
                   ELSE (IF i \in idx THEN <<GenomicRangeId(ranges[i])>> ELSE <<>>) \o Pick(i + 1)
    IN  Pick(1)

\* engine: vstolibrs.overlap_variant_calls, the mapping call ID -> range IDs
\* as <<key, value>> entries; a call without a hit has no entry
overlap_variant_calls(variantDicts, rangesDict, P) ==
    LET flat == CallsOfList(variantDicts, 1)
        ranges == FlattenRanges(rangesDict)
        RECURSIVE Entries(_)
        Entries(i) ==
            IF i > Len(flat) THEN <<>>
            ELSE LET hits == HitRangeIds(flat[i].call, ranges, P)
                 IN  (IF hits = <<>> THEN <<>> ELSE << <<flat[i].call.id, hits>> >>)
                     \o Entries(i + 1)
    IN  Entries(1)

\* the call of VariantsList.overlap hands the engine the two serialized lists
\* and num_threads only: the ranges are tested as they stand
NoPadding == 0

\* VariantsList.overlap: [(variant_call_id, [GenomicRange])]
VariantsListOverlap(vl, grl) ==
    LET near == overlap_variant_calls(ToDict(vl), GenomicRangesToDict(grl), NoPadding)
    IN  [i \in 1..Len(near) |->
            <<near[i][1],
              [k \in 1..Len(near[i][2]) |-> GetGenomicRange(grl, near[i][2][k])]>>]

\* the loop both main.overlap and main.filter_excluded_regions end with: every
\* variant is rebuilt under its ID from those of its calls whose ID is in
\* keepIds, and a variant left without a call is not added
RECURSIVE RebuildVariants(_, _, _)
RebuildVariants(variants, keepIds, acc) ==
    IF acc.raised \/ variants = <<>> THEN acc
    ELSE LET v == LoadVariantCalls(FilterCalls(Head(variants).variant_calls, keepIds),
                      [raised |-> FALSE, variant |-> NewVariant(Head(variants).id)])
         IN  IF v.raised THEN [raised |-> TRUE, value |-> EmptyVariantsList]
             ELSE RebuildVariants(Tail(variants), keepIds,
                      IF Len(v.variant.variant_calls) > 0
                      THEN [acc EXCEPT !.value = AddVariantTo(@, v.variant)]
                      ELSE acc)

\* main.overlap(variants_list, genomic_ranges_list, num_threads)
MainOverlap(vl, grl) ==
    LET near == VariantsListOverlap(vl, grl)
        ids == {near[i][1] : i \in 1..Len(near)}
    IN  RebuildVariants(vl.variants, ids, [raised |-> FALSE, value |-> EmptyVariantsList])

\* the parameters main.overlap declares
OverlapParameters == {"variants_list", "genomic_ranges_list", "num_threads"}

\* the keywords run_cli_overlap_from_parsed_args calls it with
CliOverlapKeywords == {"variants_list", "genomic_ranges_list", "padding", "num_threads"}

\* Python refuses a call with a keyword the function does not declare (TypeError)
UnexpectedKeyword(parameters, keywords) == ~(keywords \subseteq parameters)

\* a split by variants: a variant with one call in the mapping goes to the
\* rejected list with all its calls
FilterExcludedRegions_RejectsWholeVariant(vl, grl) ==
    LET near == VariantsListOverlap(vl, grl)
        hit == {near[i][1] : i \in 1..Len(near)}
        rejected_variant_call_ids ==
            UNION {VariantCallIds(<<vl.variants[i]>>) : i \in
                      {i \in 1..Len(vl.variants) :
                          VariantCallIds(<<vl.variants[i]>>) \cap hit # {}}}
        all == VariantCallIds(vl.variants)
        passed == RebuildVariants(vl.variants, all \ rejected_variant_call_ids,
                      [raised |-> FALSE, value |-> EmptyVariantsList])
        rejected == RebuildVariants(vl.variants, rejected_variant_call_ids,
                      [raised |-> FALSE, value |-> EmptyVariantsList])
    IN  [raised |-> passed.raised \/ rejected.raised,
         value |-> <<passed.value, rejected.value>>]

\* main.filter_excluded_regions: the calls the mapping names go to the
\* rejected list, all other calls to the passed list, variant by variant
FilterExcludedRegions(vl, grl) ==
    LET near == VariantsListOverlap(vl, grl)
        rejected_variant_call_ids == {near[i][1] : i \in 1..Len(near)}
        all == VariantCallIds(vl.variants)
        passed == RebuildVariants(vl.variants, all \ rejected_variant_call_ids,
                      [raised |-> FALSE, value |-> EmptyVariantsList])
        rejected == RebuildVariants(vl.variants, rejected_variant_call_ids,
                      [raised |-> FALSE, value |-> EmptyVariantsList])
    IN  [raised |-> passed.raised \/ rejected.raised,
         value |-> <<passed.value, rejected.value>>]

\* the calls and the regions of the overlap runs
OverlapCallPool == {c \in CallPool : c.id \in {"c11", "c51", "c12", "s1", "s2", "s3"}}

RangePool ==
    { GenomicRange("chr1", 1, 1), GenomicRange("chr1", 2, 3),
      GenomicRange("chr5", 4, 5), GenomicRange("chr16", 1, 7) }

\* the region files: up to two rows
RegionRows ==
    {<<>>} \cup {<<r>> : r \in RangePool} \cup {<<r, q>> : r \in RangePool, q \in RangePool}

BuildOverlapInput ==
    \/ \E c \in OverlapCallPool : AddVariant(1, c)
    \/ \E k \in 1..MaxCalls, c \in OverlapCallPool : AddVariantCall(1, k, c)

\* out = lists[1].overlap(genomic_ranges_list=grl, num_threads=1)
DoOverlapMapping(rows) ==
    /\ pc = "build"
    /\ \E grl \in {LoadDataframe(rows, EmptyGenomicRangesList)} :
          /\ params' = [genomic_ranges_list |-> grl, padding |-> NoPadding]
          /\ out' = [raised |-> FALSE, value |-> VariantsListOverlap(lists[1], grl)]
    /\ pc' = "done"
    /\ op' = "overlap_mapping"
    /\ UNCHANGED <<lists, uf, todo, num_threads, pair, tree>>

\* run_cli_overlap_from_parsed_args (and test_overlap):
\* out = overlap(variants_list=lists[1], genomic_ranges_list=grl, padding=P, num_threads=1)
DoOverlap(rows, P) ==
    /\ pc = "build"
    /\ \E grl \in {LoadDataframe(rows, EmptyGenomicRangesList)} :
          /\ params' = [genomic_ranges_list |-> grl, padding |-> P]
          /\ out' = IF UnexpectedKeyword(OverlapParameters, CliOverlapKeywords)
                    THEN [raised |-> TRUE, value |-> EmptyVariantsList]
                    ELSE MainOverlap(lists[1], grl)
    /\ pc' = "done"
    /\ op' = "overlap"
    /\ UNCHANGED <<lists, uf, todo, num_threads, pair, tree>>

\* out = filter_excluded_regions(variants_list=lists[1], excluded_regions_list=grl)
DoFilterExcludedRegions(rows) ==
    /\ pc = "build"
    /\ \E grl \in {LoadDataframe(rows, EmptyGenomicRangesList)} :
          /\ params' = [genomic_ranges_list |-> grl, padding |-> NoPadding]
          /\ out' = FilterExcludedRegions(lists[1], grl)
    /\ pc' = "done"
    /\ op' = "filter_excluded_regions"
    /\ UNCHANGED <<lists, uf, todo, num_threads, pair, tree>>

NextOverlap ==
    \/ BuildOverlapInput
    \/ \E rows \in RegionRows : DoOverlapMapping(rows)
    \/ \E rows \in RegionRows, P \in 0..MaxPadding : DoOverlap(rows, P)
    \/ \E rows \in RegionRows : DoFilterExcludedRegions(rows)

SpecOverlap == Init /\ [][NextOverlap]_vars

----------------------------------------------------------------------------
(* Properties of the overlap against regions                               *)

\* the ranges of a GenomicRangesList
RangesOf(grl) ==
    UNION {{grl.genomic_ranges_map[i][2][k] : k \in 1..Len(grl.genomic_ranges_map[i][2])} :
        i \in 1..Len(grl.genomic_ranges_map)}

\* the calls of a VariantsList
CallsIn(vl) ==
    UNION {{vl.variants[i].variant_calls[k] : k \in 1..Len(vl.variants[i].variant_calls)} :
        i \in 1..Len(vl.variants)}

\* a breakpoint of c lies on r's chromosome within [r.start - P, r.end + P]
InPaddedRange(c, r, P) ==
    \/ c.chromosome_1 = r.chromosome /\ r.start - P <= c.position_1 /\ c.position_1 <= r.end + P
    \/ c.chromosome_2 = r.chromosome /\ r.start - P <= c.position_2 /\ c.position_2 <= r.end + P

\* the (call ID, range) pairs the padded test yields
ExpectedPairs(vl, grl, P) ==
    {<<x[1].id, x[2]>> : x \in {y \in CallsIn(vl) \X RangesOf(grl) : InPaddedRange(y[1], y[2], P)}}

\* the (call ID, range) pairs of a mapping
PairsOf(mapping) ==
    UNION {{<<mapping[i][1], mapping[i][2][k]>> : k \in 1..Len(mapping[i][2])} :
        i \in 1..Len(mapping)}

\* no call has two entries and no entry lists a range twice
ListedOnce(mapping) ==
    /\ \A i, j \in 1..Len(mapping) : mapping[i][1] = mapping[j][1] => i = j
    /\ \A i \in 1..Len(mapping) :
          /\ mapping[i][2] # <<>>
          /\ \A k, m \in 1..Len(mapping[i][2]) : mapping[i][2][k] = mapping[i][2][m] => k = m

\* C17: overlap(V, G, P) maps a call ID to a range r of G exactly when one of
\* the call's breakpoints lies on r's chromosome within [r.start - P, r.end + P];
\* a call without such a range has no entry, a range hit at both breakpoints
\* is listed once, and the list overlap returns holds exactly the calls with
\* an entry.
C17_OverlapMapping ==
    /\ op = "overlap_mapping" =>
          /\ PairsOf(out.value) = ExpectedPairs(lists[1], params.genomic_ranges_list, params.padding)
          /\ ListedOnce(out.value)
    /\ op = "overlap" =>
          /\ ~out.raised
          /\ VariantCallIds(out.value.variants) =
                {x[1] : x \in ExpectedPairs(lists[1], params.genomic_ranges_list, params.padding)}

\* the variants of the input with a call in an excluded region
VariantsWithHit ==
    {i \in 1..Len(lists[1].variants) :
        \E k \in 1..Len(lists[1].variants[i].variant_calls) :
            \E r \in RangesOf(params.genomic_ranges_list) :
                InPaddedRange(lists[1].variants[i].variant_calls[k], r, params.padding)}

\* C18: filter_excluded_regions drops every variant that has a call in an
\* excluded region: the passed list holds no variant with its ID and none of
\* its calls.
C18_ExcludedRegionsDropVariant ==
    op = "filter_excluded_regions" =>
        /\ ~out.raised
        /\ \A i \in VariantsWithHit :
              /\ \A j \in 1..Len(out.value[1].variants) :
                    out.value[1].variants[j].id # lists[1].variants[i].id
              /\ VariantCallIds(<<lists[1].variants[i]>>)
                    \cap VariantCallIds(out.value[1].variants) = {}

----------------------------------------------------------------------------
(* Filter: VariantFilter, VariantsList.filter, main.filter and the filter  *)
(* evaluator (specification section 4.5)                                   *)

MaxFilters == 2      \* variant_filters holds up to MaxFilters predicates

\* VariantFilter(quantifier, attribute, operator, value, sample_ids)
VariantFilter(quantifier, attribute, operator, value, sample_ids) ==
    [quantifier |-> quantifier, attribute |-> attribute, operator |-> operator,
     value |-> value, sample_ids |-> sample_ids]

\* VariantFilter.to_dict
VariantFilterToDict(f) ==
    [quantifier |-> f.quantifier, attribute |-> f.attribute, operator |-> f.operator,
     value |-> f.value, sample_ids |-> f.sample_ids]

\* VariantFilterQuantifiers
VariantFilterQuantifiers == {"all", "any", "median", "average", "min", "max"}

\* VariantFilterOperators
VariantFilterOperators == {"<", "<=", ">", ">=", "==", "!=", "in"}

\* evaluator, step 1: the calls of the variant whose sample_id is in sample_ids
RECURSIVE RestrictToSamples(_, _)
RestrictToSamples(calls, sample_ids) ==
    IF calls = <<>> THEN <<>>
    ELSE (IF \E k \in 1..Len(sample_ids) : sample_ids[k] = Head(calls).sample_id
          THEN <<Head(calls)>> ELSE <<>>)
         \o RestrictToSamples(Tail(calls), sample_ids)

\* evaluator, step 4: the vector of per-call values of the attribute
ExtractValues(S, attribute) == [i \in 1..Len(S) |-> S[i][attribute]]

RECURSIVE SumOf(_)
SumOf(vals) == IF vals = <<>> THEN 0 ELSE Head(vals) + SumOf(Tail(vals))

\* evaluator, step 6: the operator applied to the left-hand side num/den
\* (den > 0) and the value; 'in' tests membership in the list value
ApplyOperator(operator, num, den, value) ==
    CASE operator = "<"  -> num < value * den
      [] operator = "<=" -> num <= value * den
      [] operator = ">"  -> num > value * den
      [] operator = ">=" -> num >= value * den
      [] operator = "==" -> num = value * den
      [] operator = "!=" -> num # value * den
      [] operator = "in" -> \E k \in 1..Len(value) : value[k] * den = num

\* evaluator, step 5: the aggregate of a non-empty vector as <<num, den>>;
\* the median of an even number of values is the mean of the two middle ones
Aggregate(quantifier, vals) ==
    LET n == Len(vals)
        sorted == SortSeq(vals, LAMBDA x, y : x < y)
    IN  CASE quantifier = "min" -> <<sorted[1], 1>>
          [] quantifier = "max" -> <<sorted[n], 1>>
          [] quantifier = "average" -> <<SumOf(vals), n>>
          [] quantifier = "median" ->
                IF n % 2 = 1 THEN <<sorted[(n + 1) \div 2], 1>>
                ELSE <<sorted[n \div 2] + sorted[n \div 2 + 1], 2>>

\* evaluator with an empty S satisfied by 'all'
EvaluateFilter_EmptySatisfiesAll(f, calls) ==
    LET S == RestrictToSamples(calls, f.sample_ids)
        vals == ExtractValues(S, f.attribute)
    IN  IF f.quantifier = "all"
        THEN \A i \in 1..Len(vals) : ApplyOperator(f.operator, vals[i], 1, f.value)
        ELSE IF S = <<>> THEN FALSE
        ELSE IF f.quantifier = "any"
        THEN \E i \in 1..Len(vals) : ApplyOperator(f.operator, vals[i], 1, f.value)
        ELSE LET a == Aggregate(f.quantifier, vals)
             IN  ApplyOperator(f.operator, a[1], a[2], f.value)

\* evaluator: one predicate on the calls of one variant (steps 1 to 6)
EvaluateFilter(f, calls) ==
    LET S == RestrictToSamples(calls, f.sample_ids)
        vals == ExtractValues(S, f.attribute)
    IN  IF S = <<>> THEN FALSE
        ELSE IF f.quantifier = "all"
        THEN \A i \in 1..Len(vals) : ApplyOperator(f.operator, vals[i], 1, f.value)
        ELSE IF f.quantifier = "any"
        THEN \E i \in 1..Len(vals) : ApplyOperator(f.operator, vals[i], 1, f.value)
        ELSE LET a == Aggregate(f.quantifier, vals)
             IN  ApplyOperator(f.operator, a[1], a[2], f.value)

\* engine: vstolibrs.filter_variants_list, the serialized variants that
\* satisfy every predicate (step 7)
filter_variants_list(variantDicts, filterDicts) ==
    SelectSeq(variantDicts,
        LAMBDA d : \A k \in 1..Len(filterDicts) : EvaluateFilter(filterDicts[k], d.variant_calls))

\* VariantsList.filter
VariantsListFilter(vl, variant_filters) ==
    LoadSerializedJson(
        filter_variants_list(ToDict(vl),
            [k \in 1..Len(variant_filters) |-> VariantFilterToDict(variant_filters[k])]))

\* Step 2 of main.filter: the variants of the input, in input order, go to
\* the passed list when their ID is among the passed IDs, else to the rejected list
RECURSIVE SplitVariants(_, _, _)
SplitVariants(variants, passed_variants_ids, acc) ==
    IF variants = <<>> THEN acc
    ELSE SplitVariants(Tail(variants), passed_variants_ids,
            IF Head(variants).id \in passed_variants_ids
            THEN [acc EXCEPT ![1] = AddVariantTo(@, Head(variants))]
            ELSE [acc EXCEPT ![2] = AddVariantTo(@, Head(variants))])

\* main.filter that adds every variant to the rejected list
MainFilter_RejectsEveryVariant(vl, variant_filters) ==
    LET passed_variants_list == VariantsListFilter(vl, variant_filters)
        passed_variants_ids ==
            {passed_variants_list.value.variants[i].id :
                i \in 1..Len(passed_variants_list.value.variants)}
        split == SplitVariants(vl.variants, passed_variants_ids,
                     <<EmptyVariantsList, EmptyVariantsList>>)
    IN  IF passed_variants_list.raised
        THEN [raised |-> TRUE, value |-> <<EmptyVariantsList, EmptyVariantsList>>]
        ELSE [raised |-> FALSE,
              value |-> <<split[1], SplitVariants(vl.variants, {},
                                       <<EmptyVariantsList, EmptyVariantsList>>)[2]>>]

\* main.filter
MainFilter(vl, variant_filters) ==
    LET passed_variants_list == VariantsListFilter(vl, variant_filters)
        passed_variants_ids ==
            {passed_variants_list.value.variants[i].id :
                i \in 1..Len(passed_variants_list.value.variants)}
    IN  IF passed_variants_list.raised
        THEN [raised |-> TRUE, value |-> <<EmptyVariantsList, EmptyVariantsList>>]
        ELSE [raised |-> FALSE,
              value |-> SplitVariants(vl.variants, passed_variants_ids,
                            <<EmptyVariantsList, EmptyVariantsList>>)]

\* the calls of the filter runs: sample, position and alternate_allele_read_count
FilterCall(id, s, p, n) ==
    [alternate_allele_read_count |-> n] @@ VariantCall(id, s, "chr1", p, "chr1", p, "SNV", 1)

FilterCallPool ==
    { FilterCall("f2", "sample1", 3, 2), FilterCall("f5", "sample1", 1, 5),
      FilterCall("f8", "sample1", 2, 8), FilterCall("g3", "sample2", 2, 3),
      FilterCall("g4", "sample2", 4, 4) }

\* the predicates one evaluation is run with
FilterSet ==
    {VariantFilter(q, "alternate_allele_read_count", o, v, ids) :
        q \in VariantFilterQuantifiers, o \in VariantFilterOperators \ {"in"},
        v \in 2..4, ids \in {<<"sample1">>, <<"sample1", "sample2">>}}

\* the predicates with a list value
MembershipFilterSet ==
    {VariantFilter(q, "alternate_allele_read_count", "in", <<2, 5>>, ids) :
        q \in VariantFilterQuantifiers, ids \in {<<"sample1">>, <<"sample1", "sample2">>}}

\* the predicates the lists of main.filter are made of
FilterPool ==
    { VariantFilter("all", "alternate_allele_read_count", ">=", 3, <<"sample1">>),
      VariantFilter("any", "alternate_allele_read_count", ">=", 5, <<"sample1", "sample2">>),
      VariantFilter("median", "alternate_allele_read_count", ">=", 4, <<"sample1">>),
      VariantFilter("min", "position_1", "<", 3, <<"sample2">>) }

RECURSIVE FilterLists(_)
FilterLists(n) ==
    IF n = 0 THEN {<<>>}
    ELSE FilterLists(n - 1) \cup
         {Append(fs, f) : fs \in {x \in FilterLists(n - 1) : Len(x) = n - 1}, f \in FilterPool}

BuildFilterInput ==
    \/ \E c \in FilterCallPool : AddVariant(1, c)
    \/ \E k \in 1..MaxCalls, c \in FilterCallPool : AddVariantCall(1, k, c)

\* out = filter(variants_list=lists[1], variant_filters=fs, num_threads=1)
DoFilter(fs) ==
    /\ pc = "build"
    /\ params' = [variant_filters |-> fs]
    /\ out' = MainFilter(lists[1], fs)
    /\ pc' = "done"
    /\ op' = "filter"
    /\ UNCHANGED <<lists, uf, todo, num_threads, pair, tree>>

\* the evaluator on predicate f and variant k of lists[1]
DoEvaluateFilter(f, k) ==
    /\ pc = "build"
    /\ k \in 1..Len(lists[1].variants)
    /\ params' = [variant_filter |-> f, variant |-> k]
    /\ out' = [raised |-> FALSE,
               value |-> EvaluateFilter(VariantFilterToDict(f), lists[1].variants[k].variant_calls)]
    /\ pc' = "done"
    /\ op' = "evaluate"
    /\ UNCHANGED <<lists, uf, todo, num_threads, pair, tree>>

NextFilter ==
    \/ BuildFilterInput
    \/ \E fs \in FilterLists(MaxFilters) : DoFilter(fs)
    \/ \E f \in FilterSet, k \in 1..MaxCalls : DoEvaluateFilter(f, k)
    \/ \E f \in MembershipFilterSet, k \in 1..MaxCalls : DoEvaluateFilter(f, k)

SpecFilter == Init /\ [][NextFilter]_vars

----------------------------------------------------------------------------
(* Properties of the filter                                                *)

\* the calls of variant v that a predicate is evaluated on
SelectedCalls(f, v) ==
    {c \in {v.variant_calls[k] : k \in 1..Len(v.variant_calls)} :
        c.sample_id \in {f.sample_ids[k] : k \in 1..Len(f.sample_ids)}}

\* the comparison of the fraction num/den with the predicate's value
Holds(f, num, den) ==
    CASE f.operator = "<"  -> num < f.value * den
      [] f.operator = "<=" -> ~(num > f.value * den)
      [] f.operator = ">"  -> num > f.value * den
      [] f.operator = ">=" -> ~(num < f.value * den)
      [] f.operator = "==" -> num = f.value * den
      [] f.operator = "!=" -> ~(num = f.value * den)
      [] f.operator = "in" -> num \in {f.value[k] * den : k \in 1..Len(f.value)}

\* the sum of the attribute over a set of calls
RECURSIVE Total(_, _)
Total(S, attribute) ==
    IF S = {} THEN 0
    ELSE LET c == CHOOSE x \in S : TRUE
         IN  c[attribute] + Total(S \ {c}, attribute)

\* a value of the attribute in S with at most below calls under it and at
\* most above calls over it
Ranked(S, attribute, below, above) ==
    LET c == CHOOSE x \in S :
                /\ Cardinality({d \in S : d[attribute] < x[attribute]}) <= below
                /\ Cardinality({d \in S : d[attribute] > x[attribute]}) <= above
    IN  c[attribute]

\* one predicate on one variant, as the filter semantics state it
PredicateHolds(f, v) ==
    LET S == SelectedCalls(f, v)
        n == Cardinality(S)
        a == f.attribute
    IN  /\ S # {}
        /\ CASE f.quantifier = "all" -> \A c \in S : Holds(f, c[a], 1)
             [] f.quantifier = "any" -> \E c \in S : Holds(f, c[a], 1)
             [] f.quantifier = "min" -> Holds(f, Ranked(S, a, 0, n - 1), 1)
             [] f.quantifier = "max" -> Holds(f, Ranked(S, a, n - 1, 0), 1)
             [] f.quantifier = "average" -> Holds(f, Total(S, a), n)
             [] f.quantifier = "median" ->
                   IF n % 2 = 1
                   THEN Holds(f, Ranked(S, a, (n - 1) \div 2, (n - 1) \div 2), 1)
                   ELSE Holds(f, Ranked(S, a, n \div 2 - 1, n \div 2)
                                 + Ranked(S, a, n \div 2, n \div 2 - 1), 2)

\* a variant passes when every predicate of the list holds on it
PassesAll(fs, v) == \A k \in 1..Len(fs) : PredicateHolds(fs[k], v)

\* C19: filter splits the input variants in two: the passed list holds, in
\* input order and with all their calls, exactly the variants on which every
\* predicate yields true, the rejected list holds all other variants in input
\* order, so every input variant is in exactly one of the two lists.
C19_FilterSplitsVariants ==
    op = "filter" =>
        /\ ~out.raised
        /\ out.value[1].variants =
              SelectSeq(lists[1].variants, LAMBDA v : PassesAll(params.variant_filters, v))
        /\ out.value[2].variants =
              SelectSeq(lists[1].variants, LAMBDA v : ~PassesAll(params.variant_filters, v))

C19_Witness ==
    /\ op = "filter"
    /\ Len(params.variant_filters) = 2
    /\ Len(out.value[1].variants) = 2
    /\ Len(out.value[2].variants) = 1
    /\ out.value[2].variants[1] = lists[1].variants[2]

\* the evaluated variant's selected calls have the read counts {2, 5, 8}
CountsTwoFiveEight ==
    LET v == lists[1].variants[params.variant]
        S == SelectedCalls(params.variant_filter, v)
    IN  /\ Cardinality(S) = 3
        /\ {c.alternate_allele_read_count : c \in S} = {2, 5, 8}

IsPredicate(q, o, x) ==
    /\ params.variant_filter.quantifier = q
    /\ params.variant_filter.operator = o
    /\ params.variant_filter.value = x

\* C20: a predicate is evaluated on the calls S of the variant whose sample is
\* in sample_ids: it is false when S is empty, 'all' holds iff the comparison
\* holds for every call of S, 'any' iff for at least one, and min, max, median
\* and average compare the aggregate over S once; on the read counts {2, 5, 8}
\* 'all >= 3' fails and 'any >= 3', 'min >= 2', 'median >= 4' pass.
C20_PredicateSemantics ==
    op = "evaluate" =>
        /\ out.value = PredicateHolds(params.variant_filter, lists[1].variants[params.variant])
        /\ SelectedCalls(params.variant_filter, lists[1].variants[params.variant]) = {}
              => out.value = FALSE
        /\ CountsTwoFiveEight =>
              /\ IsPredicate("all", ">=", 3) => out.value = FALSE
              /\ IsPredicate("any", ">=", 3) => out.value = TRUE
              /\ IsPredicate("min", ">=", 2) => out.value = TRUE
              /\ IsPredicate("median", ">=", 4) => out.value = TRUE

C20_Witness ==
    /\ op = "evaluate"
    /\ CountsTwoFiveEight
    /\ IsPredicate("median", ">=", 4)
    /\ out.value = TRUE

C20_WitnessEmpty ==
    /\ op = "evaluate"
    /\ SelectedCalls(params.variant_filter, lists[1].variants[params.variant]) = {}
    /\ params.variant_filter.quantifier = "all"
    /\ out.value = FALSE

----------------------------------------------------------------------------
(* Collapse: main.collapse                                                 *)

\* CollapseStrategies.MAX_ALTERNATE_ALLELE_READ_COUNT
MAX_ALTERNATE_ALLELE_READ_COUNT == "max_alternate_allele_read_count"

\* the default of the parameter strategy: the typing object
\* Literal['max_alternate_allele_read_count'], which is not a string
DefaultStrategy == "typing.Literal['max_alternate_allele_read_count']"

\* the inner loop of collapse over the calls of one variant; i is 0-based
RECURSIVE CollapseScan(_, _, _, _)
CollapseScan(calls, sample_id, i, acc) ==
    IF i >= Len(calls) THEN acc
    ELSE LET variant_call == calls[i + 1]
         IN  CollapseScan(calls, sample_id, i + 1,
                IF variant_call.sample_id = sample_id
                THEN IF variant_call.alternate_allele_read_count > acc.min_reads
                     THEN [target_idx |-> i,
                           min_reads |-> variant_call.alternate_allele_read_count,
                           matches_sample_id |-> TRUE]
                     ELSE [acc EXCEPT !.matches_sample_id = TRUE]
                ELSE acc)

\* the index collapse takes a call from: target_idx, or 0 when no call of the
\* sample had a read count above -1
TargetIdx(calls, scan) ==
    IF scan.target_idx = -1 THEN 0 ELSE scan.target_idx

\* the outer loop of collapse
RECURSIVE CollapseVariants(_, _, _)
CollapseVariants(variants, sample_id, acc) ==
    IF variants = <<>> THEN acc
    ELSE LET variant == Head(variants)
             scan == CollapseScan(variant.variant_calls, sample_id, 0,
                        [target_idx |-> -1, min_reads |-> -1, matches_sample_id |-> FALSE])
         IN  CollapseVariants(Tail(variants), sample_id,
                IF scan.matches_sample_id
                THEN AddVariantTo(acc,
                        AddVariantCallTo(NewVariant(variant.id),
                            variant.variant_calls[TargetIdx(variant.variant_calls, scan) + 1]))
                ELSE acc)

\* main.collapse
Collapse(vl, sample_id, strategy) ==
    IF strategy = MAX_ALTERNATE_ALLELE_READ_COUNT
    THEN [raised |-> FALSE, value |-> CollapseVariants(vl.variants, sample_id, EmptyVariantsList)]
    ELSE [raised |-> TRUE, value |-> EmptyVariantsList]

\* the calls of the collapse runs; u1 and u3 carry no read count
CollapseCallPool ==
    { FilterCall("f2", "sample1", 3, 2), FilterCall("f5", "sample1", 1, 5),
      FilterCall("g3", "sample2", 2, 3), FilterCall("u1", "sample1", 4, -1),
      FilterCall("u3", "sample2", 3, -1) }

BuildCollapseInput ==
    \/ \E c \in CollapseCallPool : AddVariant(1, c)
    \/ \E k \in 1..MaxCalls, c \in CollapseCallPool : AddVariantCall(1, k, c)

\* out = collapse(variants_list=lists[1], sample_id=sample_id, strategy=strategy)
\* (cli_collapse and test_collapse pass the strategy; without it the default is used)
DoCollapse(sample_id, strategy) ==
    /\ pc = "build"
    /\ params' = [sample_id |-> sample_id, strategy |-> strategy]
    /\ out' = Collapse(lists[1], sample_id, strategy)
    /\ pc' = "done"
    /\ op' = "collapse"
    /\ UNCHANGED <<lists, uf, todo, num_threads, pair, tree>>

NextCollapse ==
    \/ BuildCollapseInput
    \/ \E sample_id \in {"sample1", "sample2", "sample3"},
          strategy \in {MAX_ALTERNATE_ALLELE_READ_COUNT, DefaultStrategy} :
             DoCollapse(sample_id, strategy)

SpecCollapse == Init /\ [][NextCollapse]_vars

\* the calls of variant v with the sample of the collapse
SampleCalls(v) ==
    {c \in {v.variant_calls[k] : k \in 1..Len(v.variant_calls)} :
        c.sample_id = params.sample_id}

\* the input variants that have a call of the sample, in input order
WithSample == SelectSeq(lists[1].variants, LAMBDA v : SampleCalls(v) # {})

\* C21: collapse returns, for every input variant with a call of the sample,
\* a variant of the same ID with exactly one call; that call is of the sample
\* and has the largest alternate_allele_read_count among the variant's calls
\* of the sample, also when the counts are -1; other variants are absent.
C21_CollapseKeepsLargestOfSample ==
    (op = "collapse" /\ params.strategy = MAX_ALTERNATE_ALLELE_READ_COUNT) =>
        /\ ~out.raised
        /\ Len(out.value.variants) = Len(WithSample)
        /\ \A i \in 1..Len(WithSample) :
              LET v == WithSample[i]
                  w == out.value.variants[i]
              IN  /\ w.id = v.id
                  /\ Len(w.variant_calls) = 1
                  /\ w.variant_calls[1] \in SampleCalls(v)
                  /\ \A c \in SampleCalls(v) :
                        c.alternate_allele_read_count
                            <= w.variant_calls[1].alternate_allele_read_count

\* what collapse returns when it is given the strategy by name: one call per
\* variant with a call of the sample, but the variant's first call, of
\* whatever sample, when no call of the sample has a read count above -1
C21_CollapseWithStrategy ==
    (op = "collapse" /\ params.strategy = MAX_ALTERNATE_ALLELE_READ_COUNT) =>
        /\ ~out.raised
        /\ Len(out.value.variants) = Len(WithSample)
        /\ \A i \in 1..Len(WithSample) :
              LET v == WithSample[i]
                  w == out.value.variants[i]
                  counted == {c \in SampleCalls(v) : c.alternate_allele_read_count > -1}
              IN  /\ w.id = v.id
                  /\ Len(w.variant_calls) = 1
                  /\ IF counted = {} THEN w.variant_calls[1] = v.variant_calls[1]
                     ELSE /\ w.variant_calls[1] \in counted
                          /\ \A c \in counted :
                                c.alternate_allele_read_count
                                    <= w.variant_calls[1].alternate_allele_read_count

\* collapse called without a strategy, as collapse(variants_list, sample_id), returns a list
C21_DefaultStrategyReturns ==
    (op = "collapse" /\ params.strategy = DefaultStrategy) => ~out.raised

----------------------------------------------------------------------------
(* Properties of the records the operations return                         *)

\* all calls of every variant of a list share chromosome_1 and chromosome_2
UniformChromosomes(vl) ==
    \A i \in 1..Len(vl.variants) :
        \A k \in 1..Len(vl.variants[i].variant_calls) :
            /\ vl.variants[i].variant_calls[k].chromosome_1
                  = vl.variants[i].variant_calls[1].chromosome_1
            /\ vl.variants[i].variant_calls[k].chromosome_2
                  = vl.variants[i].variant_calls[1].chromosome_2

\* C22: every Variant in a list returned by merge, intersect, compare or
\* subtract has calls of one chromosome_1 and one chromosome_2, for every
\* input and parameter bundle, so the engine's result is always rebuilt with
\* add_variant_call without an error.
C22_ReturnedVariantsAreUniform ==
    /\ op \in {"merge", "intersect", "subtract"} =>
          ~out.raised /\ UniformChromosomes(out.value)
    /\ op = "compare" =>
          ~out.raised /\ \A i \in 1..Len(out.value) : UniformChromosomes(out.value[i])

\* whenever an operation does return, its variants are uniform
C22_UniformWhenReturned ==
    /\ (op \in {"merge", "intersect", "subtract"} /\ ~out.raised) => UniformChromosomes(out.value)
    /\ (op = "compare" /\ ~out.raised) =>
          \A i \in 1..Len(out.value) : UniformChromosomes(out.value[i])

----------------------------------------------------------------------------
(* VariantsList bookkeeping: add_variant and get_variant                   *)

\* the variant IDs handed to add_variant
VariantIdPool == {"variant_1", "variant_2", "variant_3"}

\* the calls of the variants handed to add_variant
BookkeepingCallPool == {c \in CallPool : c.id \in {"s1", "s2", "c11"}}

\* VariantsList.get_variant: variants[_variants_dict[variant_id]]; an ID
\* that is not a key raises KeyError
GetVariant(vl, variant_id) ==
    IF \E i \in 1..Len(vl.variants_dict) : vl.variants_dict[i][1] = variant_id
    THEN [raised |-> FALSE,
          value |-> vl.variants[DictGet(vl.variants_dict, variant_id, -1) + 1]]
    ELSE [raised |-> TRUE, value |-> NewVariant(variant_id)]

\* lists[1].add_variant(Variant(id=id, variant_calls=[c])): no check of the ID
DoAddVariant(id, c) ==
    /\ pc = "build"
    /\ Len(lists[1].variants) < MaxCalls
    /\ lists' = [lists EXCEPT ![1] = AddVariantTo(@, AddVariantCallTo(NewVariant(id), c))]
    /\ op' = "add_variant"
    /\ params' = [variant_id |-> id]
    /\ out' = NoResult
    /\ UNCHANGED <<pc, uf, todo, num_threads, pair, tree>>

\* out = lists[1].get_variant(id)
DoGetVariant(id) ==
    /\ pc = "build"
    /\ op' = "get_variant"
    /\ params' = [variant_id |-> id]
    /\ out' = GetVariant(lists[1], id)
    /\ UNCHANGED <<lists, pc, uf, todo, num_threads, pair, tree>>

NextBookkeeping ==
    \/ \E id \in VariantIdPool, c \in BookkeepingCallPool : DoAddVariant(id, c)
    \/ \E id \in VariantIdPool : DoGetVariant(id)

SpecBookkeeping == Init /\ [][NextBookkeeping]_vars

\* C23: in every VariantsList reached by add_variant calls the variant IDs
\* are unique and the ID-to-index map sends variants[i].id to i, so that
\* get_variant(id) returns the variant stored under that ID.
C23_IdsUniqueAndMapExact ==
    LET vl == lists[1]
    IN  /\ \A i, j \in 1..Len(vl.variants) :
              vl.variants[i].id = vl.variants[j].id => i = j
        /\ \A i \in 1..Len(vl.variants) :
              DictGet(vl.variants_dict, vl.variants[i].id, -1) = i - 1
        /\ op = "get_variant" =>
              \A i \in 1..Len(vl.variants) :
                  vl.variants[i].id = params.variant_id =>
                      ~out.raised /\ out.value = vl.variants[i]

\* what add_variant keeps: every ID of the list is a key, and the map sends
\* it to the slot of the variant added last under that ID
C23_MapPointsAtLastAdded ==
    LET vl == lists[1]
        last(id) == CHOOSE i \in 1..Len(vl.variants) :
                        /\ vl.variants[i].id = id
                        /\ \A j \in 1..Len(vl.variants) : vl.variants[j].id = id => j <= i
    IN  /\ \A i \in 1..Len(vl.variants) :
              DictGet(vl.variants_dict, vl.variants[i].id, -1) = last(vl.variants[i].id) - 1
        /\ \A k \in 1..Len(vl.variants_dict) :
              \E i \in 1..Len(vl.variants) : vl.variants[i].id = vl.variants_dict[k][1]

----------------------------------------------------------------------------
(* Edge discovery through the spatial index (specification section 4.4.1): *)
(* the index is built by index_variants_list with buffer D; every call     *)
(* queries it on chromosome_1 at position_1 and, when match_all_breakpoints *)
(* is false, on chromosome_2 at position_2; the oracle confirms candidates *)

\* the rows a call proposes as candidates (0-based row numbers)
Candidates(t, a, p) ==
    QueryIndex(t, a.chromosome_1, a.position_1)
    \cup (IF p.match_all_breakpoints THEN {}
          ELSE QueryIndex(t, a.chromosome_2, a.position_2))

\* the confirmed edges as sets of two positions of flat
DiscoverEdges(flat, t, p) ==
    {e \in {{i, j} : i \in 1..Len(flat), j \in 1..Len(flat)} :
        \E i \in e, j \in e :
            /\ i # j
            /\ (j - 1) \in Candidates(t, flat[i].call, p)
            /\ IsMatch(flat[i].call, flat[j].call, p)}

\* index and search over the union of the calls of the input lists
Discover(vls, p) ==
    LET flat == AllCalls(SerializeAll(vls))
        r == index_variants_list([i \in 1..Len(flat) |-> flat[i].call], p.max_neighbor_distance)
    IN  IF r.raised THEN [raised |-> TRUE, value |-> {}]
        ELSE [raised |-> FALSE, value |-> DiscoverEdges(flat, r.value, p)]

\* the calls of the discovery runs: the swapped translocations at distance 0
\* (c11, c51) and at distance 1 on both breakpoints (t25, t61), and two SNVs
DiscoveryCallPool ==
    {c \in CallPool : c.id \in {"c11", "c51", "c21", "s1", "s2"}}
    \cup { VariantCall("t25", "sample1", "chr1", 2, "chr5", 5, "TRA", -1),
           VariantCall("t61", "sample2", "chr5", 6, "chr1", 1, "TRA", -1) }

BuildDiscoveryInput == \E i \in 1..2, c \in DiscoveryCallPool : AddVariant(i, c)

\* the search that precedes the clustering of merge / intersect / compare
DoDiscover ==
    /\ pc = "build"
    /\ \E p \in ParamSet :
          /\ params' = p
          /\ out' = Discover(lists, p)
    /\ op' = "discover"
    /\ pc' = "done"
    /\ UNCHANGED <<lists, uf, todo, num_threads, pair, tree>>

NextDiscovery == BuildDiscoveryInput \/ DoDiscover

SpecDiscovery == Init /\ [][NextDiscovery]_vars

\* the pairs of positions the oracle declares a match
MatchingPairs ==
    LET flat == AllCalls(SerializeAll(lists))
    IN  {e \in {{i, j} : i \in 1..Len(flat), j \in 1..Len(flat)} :
            \E i \in e, j \in e : Related(flat, params, i, j)}

\* the classes of the positions 1..n under the edges E
RECURSIVE Closure(_, _)
Closure(E, S) ==
    LET N == S \cup UNION {e \in E : e \cap S # {}}
    IN  IF N = S THEN S ELSE Closure(E, N)

ClassesOf(E, n) == {Closure(E, {i}) : i \in 1..n}

\* C24: edge discovery is complete: every pair of calls the oracle declares a
\* match is proposed by the index search, so the components built from the
\* discovered edges are the components of the full relation R, also for
\* matches through the swapped alignment or at position_2 only.
C24_DiscoveryComplete ==
    op = "discover" =>
        /\ ~out.raised
        /\ MatchingPairs \subseteq out.value
        /\ ClassesOf(out.value, Len(AllCalls(SerializeAll(lists))))
              = ClassesOf(MatchingPairs, Len(AllCalls(SerializeAll(lists))))

\* the same for runs in which the index could be built
C24_CompleteWhenIndexed ==
    (op = "discover" /\ ~out.raised) => MatchingPairs \subseteq out.value

\* what the search keeps: it raises exactly for D = 0 over a non-empty
\* input, and it proposes nothing the oracle does not confirm
C24_DiscoverySound ==
    op = "discover" =>
        /\ out.raised <=> (params.max_neighbor_distance = 0
                            /\ Len(AllCalls(SerializeAll(lists))) > 0)
        /\ out.value \subseteq MatchingPairs

----------------------------------------------------------------------------
(* One Variant and its add_variant_call (variant.py): the Variant is       *)
(* lists[1].variants[1]; a refused call is recorded in out.raised          *)

\* calls on chr1/chr1 with equal and different loci, and calls whose
\* chromosome_2 or chromosome_1 differs from them
VariantCallPool ==
    { VariantCall("a1", "sample1", "chr1", 1, "chr1", 1, "SNV", 1),
      VariantCall("a2", "sample2", "chr1", 1, "chr1", 1, "SNV", 1),
      VariantCall("a3", "sample3", "chr1", 1, "chr1", 1, "SNV", 1),
      VariantCall("b1", "sample1", "chr1", 2, "chr1", 2, "SNV", 1),
      VariantCall("b2", "sample2", "chr1", 1, "chr1", 2, "DEL", 1),
      VariantCall("x5", "sample1", "chr1", 1, "chr5", 5, "TRA", -1),
      VariantCall("y5", "sample2", "chr5", 5, "chr1", 1, "TRA", -1),
      VariantCall("z10", "sample1", "chr10", 1, "chr10", 1, "SNV", 1) }

\* lists[1].add_variant(Variant(id="variant_1")): a Variant without calls
DoNewVariant ==
    /\ pc = "build"
    /\ lists[1].variants = <<>>
    /\ lists' = [lists EXCEPT ![1] = AddVariantTo(@, NewVariant("variant_1"))]
    /\ op' = "new_variant"
    /\ UNCHANGED <<pc, params, out, uf, todo, num_threads, pair, tree>>

\* lists[1].variants[0].add_variant_call(c)
DoAddVariantCall(c) ==
    /\ pc = "build"
    /\ Len(lists[1].variants) = 1
    /\ Len(lists[1].variants[1].variant_calls) < MaxCalls
    /\ op' = "add_variant_call"
    /\ params' = [variant_call |-> c]
    /\ IF AddVariantCallRaises(lists[1].variants[1], c)
       THEN /\ out' = [raised |-> TRUE, value |-> <<>>]
            /\ UNCHANGED lists
       ELSE /\ out' = [raised |-> FALSE, value |-> <<>>]
            /\ lists' = [lists EXCEPT ![1].variants[1] = AddVariantCallTo(@, c)]
    /\ UNCHANGED <<pc, uf, todo, num_threads, pair, tree>>

NextVariant == DoNewVariant \/ \E c \in VariantCallPool : DoAddVariantCall(c)

SpecVariant == Init /\ [][NextVariant]_vars

\* the calls of the Variant, before and after a step
HeldCalls == lists[1].variants[1].variant_calls
HeldCallsAfter == lists'[1].variants[1].variant_calls

SameChromosomes(a, b) ==
    a.chromosome_1 = b.chromosome_1 /\ a.chromosome_2 = b.chromosome_2

SameLocus(a, b) ==
    SameChromosomes(a, b) /\ a.position_1 = b.position_1 /\ a.position_2 = b.position_2

\* s with its element at position i removed
Without(s, i) == SubSeq(s, 1, i - 1) \o SubSeq(s, i + 1, Len(s))

\* C25: add_variant_call accepts any call into an empty Variant; into a
\* non-empty Variant it accepts a call iff its chromosome_1 and chromosome_2
\* equal those of the calls already held; otherwise it raises and leaves
\* the list of calls exactly as it was.
C25_AcceptsIffSameChromosomes ==
    [][ op' = "add_variant_call" =>
          IF \A k \in 1..Len(HeldCalls) :
                 SameChromosomes(params'.variant_call, HeldCalls[k])
          THEN /\ ~out'.raised
               /\ \E i \in 1..Len(HeldCallsAfter) :
                     /\ HeldCallsAfter[i] = params'.variant_call
                     /\ Without(HeldCallsAfter, i) = HeldCalls
          ELSE /\ out'.raised
               /\ HeldCallsAfter = HeldCalls ]_vars

\* a call with the chromosome_1 of the held calls and another chromosome_2
\* was refused, and a call was accepted into the empty Variant before
C25_Witness ==
    /\ op = "add_variant_call"
    /\ out.raised
    /\ Len(HeldCalls) > 0
    /\ params.variant_call.chromosome_1 = HeldCalls[1].chromosome_1
    /\ params.variant_call.chromosome_2 # HeldCalls[1].chromosome_2

\* the calls of the Variant are in non-decreasing order of their locus
SortedByLocus(calls) ==
    \A k \in 1..(Len(calls) - 1) : ~VariantCallLt(calls[k + 1], calls[k])

\* C26: after any sequence of successful add_variant_call operations the
\* calls of a Variant are in non-decreasing order of (chromosome_1,
\* position_1, chromosome_2, position_2), every added call is present
\* exactly once (each accepted call enters at one position and the other
\* calls keep their order), and calls with an equal locus keep their
\* insertion order (the new call stands after the held calls of its locus).
C26_SortedStableInsertion ==
    /\ [](Len(lists[1].variants) = 1 => SortedByLocus(HeldCalls))
    /\ [][ (op' = "add_variant_call" /\ ~out'.raised) =>
             \E i \in 1..Len(HeldCallsAfter) :
                /\ HeldCallsAfter[i] = params'.variant_call
                /\ Without(HeldCallsAfter, i) = HeldCalls
                /\ \A k \in 1..Len(HeldCalls) :
                      SameLocus(HeldCalls[k], params'.variant_call) => k < i
                /\ \A k \in (i + 1)..Len(HeldCallsAfter) :
                      VariantCallLt(params'.variant_call, HeldCallsAfter[k]) ]_vars

\* three calls: the last one added stands in the middle, after a call of
\* its own locus that was added before it and before a call of a later locus
C26_Witness ==
    /\ op = "add_variant_call"
    /\ ~out.raised
    /\ Len(lists[1].variants) = 1
    /\ Len(HeldCalls) = 3
    /\ HeldCalls[2] = params.variant_call
    /\ SameLocus(HeldCalls[1], HeldCalls[2])
    /\ HeldCalls[1].id = "a2"
    /\ HeldCalls[2].id = "a1"
    /\ VariantCallLt(HeldCalls[2], HeldCalls[3])

----------------------------------------------------------------------------
(* Subtract with several query lists: main.subtract with a list of queries *)
(* and the loop of the command line, which calls main.subtract once per    *)
(* query file; lists[1] is the target, lists[2] and lists[3] the queries   *)

\* the loop that subtracts every query from the target it was started with
RECURSIVE CliSubtract_SubtractsFromFirstTarget(_, _, _)
CliSubtract_SubtractsFromFirstTarget(acc, queries, p) ==
    IF acc.raised \/ queries = <<>>
    THEN acc
    ELSE LET r == Subtract(acc.value, <<Head(queries)>>, p)
         IN  IF Len(queries) = 1 THEN r
             ELSE CliSubtract_SubtractsFromFirstTarget(
                      [raised |-> r.raised, value |-> acc.value], Tail(queries), p)

\* run_cli_subtract_from_parsed_args, step 2: target = subtract(target, [query])
\* for every query file in turn
RECURSIVE CliSubtract(_, _, _)
CliSubtract(acc, queries, p) ==
    IF acc.raised \/ queries = <<>>
    THEN acc
    ELSE CliSubtract(Subtract(acc.value, <<Head(queries)>>, p), Tail(queries), p)

FoldCallPool == {c \in CallPool : c.id \in {"c11", "c21", "c51", "s1", "s2"}}

\* the orders in which the two query lists are handed over
QueryOrders == {<<>>, <<2>>, <<3>>, <<2, 3>>, <<3, 2>>}

FoldUsedIds == UNION {VariantCallIds(lists[i].variants) : i \in 1..3}

InitFold ==
    /\ lists = <<EmptyVariantsList, EmptyVariantsList, EmptyVariantsList>>
    /\ pc = "build"
    /\ op = "none"
    /\ params = NoParams
    /\ out = NoResult
    /\ uf = <<>>
    /\ num_threads = 0
    /\ tree = <<>>
    /\ todo = {}
    /\ pair = <<>>

\* lists[i].add_variant(Variant with the call c), in the order of the file; a
\* target of two calls and one call in each query list make MaxCalls + 1 calls
AddFoldVariant(i, c) ==
    /\ pc = "build"
    /\ c.id \notin FoldUsedIds
    /\ Cardinality(FoldUsedIds) < MaxCalls + 1
    /\ \A k \in 1..Len(lists[i].variants) :
          LET v == lists[i].variants[k]
          IN  PoolRank(v.variant_calls[Founder(v)].id) < PoolRank(c.id)
    /\ lists' = [lists EXCEPT ![i] =
                    AddVariantTo(@, AddVariantCallTo(NewVariant("variant_" \o c.id), c))]
    /\ UNCHANGED <<pc, op, params, out, uf, todo, num_threads, pair, tree>>

\* lists[1].variants[k].add_variant_call(c), when it is accepted
AddFoldVariantCall(k, c) ==
    /\ pc = "build"
    /\ c.id \notin FoldUsedIds
    /\ Cardinality(FoldUsedIds) < MaxCalls + 1
    /\ k \in 1..Len(lists[1].variants)
    /\ ~AddVariantCallRaises(lists[1].variants[k], c)
    /\ lists' = [lists EXCEPT ![1].variants[k] = AddVariantCallTo(@, c)]
    /\ UNCHANGED <<pc, op, params, out, uf, todo, num_threads, pair, tree>>

BuildFoldInput ==
    \/ \E i \in 1..3, c \in FoldCallPool : AddFoldVariant(i, c)
    \/ \E k \in 1..MaxCalls, c \in FoldCallPool : AddFoldVariantCall(k, c)

QueryLists(order) == [k \in 1..Len(order) |-> lists[order[k]]]

\* variants_list = subtract(target_variants_list=lists[1],
\*                          query_variants_lists=[lists[i] for i in order], ...)
DoSubtractQueries ==
    /\ pc = "build"
    /\ \E p \in ParamSet, order \in QueryOrders :
          /\ params' = [queries |-> order] @@ p
          /\ out' = Subtract(lists[1], QueryLists(order), p)
    /\ op' = "subtract"
    /\ pc' = "done"
    /\ UNCHANGED <<lists, uf, todo, num_threads, pair, tree>>

\* vstol subtract --target-tsv-file lists[1] --query-tsv-file lists[i] for i in
\* order; the command line requires one query file at least
DoCliSubtract ==
    /\ pc = "build"
    /\ \E p \in ParamSet, order \in QueryOrders \ {<<>>} :
          /\ params' = [queries |-> order] @@ p
          /\ out' = CliSubtract([raised |-> FALSE, value |-> lists[1]],
                                QueryLists(order), p)
    /\ op' = "cli_subtract"
    /\ pc' = "done"
    /\ UNCHANGED <<lists, uf, todo, num_threads, pair, tree>>

NextFold == BuildFoldInput \/ DoSubtractQueries \/ DoCliSubtract

SpecFold == InitFold /\ [][NextFold]_vars

\* the calls of the query lists that were handed over
QueryCalls == UNION {CallSet(lists[params.queries[k]].variants) :
                        k \in 1..Len(params.queries)}

\* the sequences that hold the elements of s in another order
Reorderings(s) ==
    {t \in [1..Len(s) -> {s[k] : k \in 1..Len(s)}] :
        \A k \in 1..Len(s) : \E m \in 1..Len(s) : t[m] = s[k]}

\* C27: multi-query subtract is the left fold of pairwise subtract and does
\* not depend on the order of the queries: subtract(T, [Q_1..Q_n]) keeps
\* exactly the calls of T without an oracle match in any Q_i (under their
\* variant IDs), gives the same list for every permutation of the queries,
\* and returns a list equal to T when the list of queries is empty.
C27_SubtractFoldOrderFree ==
    op \in {"subtract", "cli_subtract"} =>
        /\ ~out.raised
        /\ LET keep(v) == Survivors(v, QueryCalls, params)
           IN  KeepsUnderOriginalIds(out.value, lists[1], keep)
        /\ \A order \in Reorderings(params.queries) :
              /\ Subtract(lists[1], QueryLists(order), params) = out
              /\ CliSubtract([raised |-> FALSE, value |-> lists[1]],
                             QueryLists(order), params) = out
        /\ params.queries = <<>> => out.value = lists[1]

\* two query lists handed over with lists[3] first: each removed one call of
\* the target that the other one leaves
C27_Witness ==
    /\ op = "cli_subtract"
    /\ params.queries = <<3, 2>>
    /\ ~out.raised
    /\ \E a \in CallSet(lists[1].variants), b \in CallSet(lists[1].variants) :
          /\ \E q \in CallSet(lists[2].variants) : IsMatch(a, q, params)
          /\ \A q \in CallSet(lists[3].variants) : ~IsMatch(a, q, params)
          /\ \E q \in CallSet(lists[3].variants) : IsMatch(b, q, params)
          /\ \A q \in CallSet(lists[2].variants) : ~IsMatch(b, q, params)
    /\ CallSet(out.value.variants) = {}

\* no queries: the target comes back as it is
C27_WitnessNoQueries ==
    /\ op = "subtract"
    /\ params.queries = <<>>
    /\ Len(lists[1].variants) = 2
    /\ out.value = lists[1]

----------------------------------------------------------------------------
(* Several GenomicRangesList objects in one process (genomic_ranges_list.py) *)
(* genomic_ranges_map is assigned in the class body without an annotation,  *)
(* so the dataclass makes no field of it: it is one defaultdict(list) that  *)
(* belongs to the class. tree holds it; lists[i].ids is the                  *)
(* _genomic_ranges_map of the i-th object; pair[i] is the region table that  *)
(* was added to the i-th object                                              *)

MaxRanges == 2       \* ranges added to all GenomicRangesList objects together

\* the i-th object as self sees it
RangesListView(i) == [genomic_ranges_map |-> tree, ids |-> lists[i].ids]

\* GenomicRangesList.__post_init__: every range of genomic_ranges_map is
\* entered into the new object's _genomic_ranges_map
PostInit(map) ==
    LET RECURSIVE Entries(_, _, _)
        Entries(k, i, acc) ==
            IF k > Len(map) THEN acc
            ELSE IF i > Len(map[k][2]) THEN Entries(k + 1, 1, acc)
            ELSE Entries(k, i + 1,
                     DictSet(acc, GenomicRangeId(map[k][2][i]), <<map[k][1], i - 1>>))
    IN  Entries(1, 1, <<>>)

\* self.genomic_ranges_map[chromosome] of a defaultdict(list): a missing key
\* is entered with an empty list
DefaultDictGet(map, k) ==
    IF \E i \in 1..Len(map) : map[i][1] = k
    THEN [value |-> DictGet(map, k, <<>>), map |-> map]
    ELSE [value |-> <<>>, map |-> Append(map, <<k, <<>> >>)]

\* GenomicRangesList.find_overlaps: the result and genomic_ranges_map afterwards
FindOverlaps(map, chromosome, start, end) ==
    LET got == DefaultDictGet(map, chromosome)
    IN  [value |-> SelectSeq(got.value, LAMBDA r : Overlaps(r, chromosome, start, end)),
         map |-> got.map]

\* GenomicRangesList.size: one per chromosome key
RangesListSize(map) == Len(map)

InitRanges ==
    /\ lists = <<>>
    /\ pc = "build"
    /\ op = "none"
    /\ params = NoParams
    /\ out = NoResult
    /\ uf = <<>>
    /\ num_threads = 0
    /\ tree = <<>>
    /\ todo = {}
    /\ pair = <<>>

RangesAdded == Len(FlattenRanges(tree))

\* the tables load_dataframe is called with
RangeTables ==
    {<<>>} \cup {<<r>> : r \in RangePool} \cup {<<r, s>> : r \in RangePool, s \in RangePool}

\* lists.append(GenomicRangesList.load_dataframe(df)): a new object, then
\* add_genomic_range for every row
DoLoadDataframe(rows) ==
    /\ pc = "build"
    /\ Len(lists) < 2
    /\ RangesAdded + Len(rows) <= MaxRanges
    /\ LET grl == LoadDataframe(rows, [genomic_ranges_map |-> tree, ids |-> PostInit(tree)])
       IN  /\ tree' = grl.genomic_ranges_map
           /\ lists' = Append(lists, [ids |-> grl.ids])
    /\ pair' = Append(pair, rows)
    /\ op' = "load_dataframe"
    /\ params' = [list |-> Len(lists) + 1]
    /\ out' = NoResult
    /\ UNCHANGED <<pc, uf, todo, num_threads>>

\* lists[i].add_genomic_range(r)
DoAddGenomicRange(i, r) ==
    /\ pc = "build"
    /\ i \in 1..Len(lists)
    /\ RangesAdded < MaxRanges
    /\ LET grl == AddGenomicRange(RangesListView(i), r)
       IN  /\ tree' = grl.genomic_ranges_map
           /\ lists' = [lists EXCEPT ![i].ids = grl.ids]
    /\ pair' = [pair EXCEPT ![i] = Append(@, r)]
    /\ op' = "add_genomic_range"
    /\ params' = [list |-> i]
    /\ out' = NoResult
    /\ UNCHANGED <<pc, uf, todo, num_threads>>

\* out = lists[i].to_dict()['genomic_ranges_map']
DoToDict(i) ==
    /\ pc = "build"
    /\ i \in 1..Len(lists)
    /\ op' = "to_dict"
    /\ params' = [list |-> i]
    /\ out' = [raised |-> FALSE, value |-> GenomicRangesToDict(RangesListView(i))]
    /\ UNCHANGED <<lists, pc, uf, todo, num_threads, pair, tree>>

\* out = lists[i].find_overlaps(chromosome, start, end)
DoFindOverlaps(i, chromosome, start, end) ==
    /\ pc = "build"
    /\ i \in 1..Len(lists)
    /\ LET r == FindOverlaps(tree, chromosome, start, end)
       IN  /\ out' = [raised |-> FALSE, value |-> r.value]
           /\ tree' = r.map
    /\ op' = "find_overlaps"
    /\ params' = [list |-> i, chromosome |-> chromosome, start |-> start, end |-> end]
    /\ UNCHANGED <<lists, pc, uf, todo, num_threads, pair>>

\* out = lists[i].get_genomic_range(id); an ID that is not a key of
\* _genomic_ranges_map raises KeyError
DoGetGenomicRange(i, id) ==
    /\ pc = "build"
    /\ i \in 1..Len(lists)
    /\ op' = "get_genomic_range"
    /\ params' = [list |-> i, id |-> id]
    /\ out' = IF \E k \in 1..Len(lists[i].ids) : lists[i].ids[k][1] = id
              THEN [raised |-> FALSE, value |-> <<GetGenomicRange(RangesListView(i), id)>>]
              ELSE [raised |-> TRUE, value |-> <<>>]
    /\ UNCHANGED <<lists, pc, uf, todo, num_threads, pair, tree>>

\* the chromosomes and bounds find_overlaps is asked with; chr10 has no range
FindChromosomes == {"chr1", "chr5", "chr10"}
FindBounds == {<<1, 1>>, <<2, 4>>}

NextRanges ==
    \/ \E rows \in RangeTables : DoLoadDataframe(rows)
    \/ \E i \in 1..2, r \in RangePool : DoAddGenomicRange(i, r)
    \/ \E i \in 1..2 : DoToDict(i)
    \/ \E i \in 1..2, k \in FindChromosomes, b \in FindBounds : DoFindOverlaps(i, k, b[1], b[2])
    \/ \E i \in 1..2, r \in RangePool : DoGetGenomicRange(i, GenomicRangeId(r))

SpecRanges == InitRanges /\ [][NextRanges]_vars

\* the ranges of the table added to the i-th list that satisfy keep
AddedTo(i, keep(_)) == SelectSeq(pair[i], keep)

\* C28: GenomicRangesList objects are independent of each other: each list
\* reports through to_dict, find_overlaps and get_genomic_range exactly the
\* ranges added to it and none of the ranges added to the other list.
C28_ListsIndependent ==
    /\ op = "to_dict" =>
          \A k \in {"chr1", "chr5", "chr10", "chr16"} :
              DictGet(out.value, k, <<>>) = AddedTo(params.list, LAMBDA r : r.chromosome = k)
    /\ op = "find_overlaps" =>
          out.value = AddedTo(params.list,
                          LAMBDA r : Overlaps(r, params.chromosome, params.start, params.end))
    /\ op = "get_genomic_range" =>
          IF \E k \in 1..Len(pair[params.list]) :
                 GenomicRangeId(pair[params.list][k]) = params.id
          THEN ~out.raised /\ GenomicRangeId(out.value[1]) = params.id
          ELSE out.raised

\* what the lists report: the ranges added to any list of the process
AddedToAny(keep(_)) == SelectSeq(FlattenRanges(tree), keep)

C28_ListsReportSharedMap ==
    /\ op = "to_dict" => out.value = tree
    /\ op = "find_overlaps" =>
          out.value = AddedToAny(LAMBDA r : Overlaps(r, params.chromosome, params.start, params.end))
    /\ (op = "get_genomic_range" /\ ~out.raised) =>
          /\ GenomicRangeId(out.value[1]) = params.id
          /\ \E k \in 1..Len(FlattenRanges(tree)) : FlattenRanges(tree)[k] = out.value[1]

\* C29: find_overlaps is a pure query: it returns exactly the ranges stored
\* for the chromosome with range.start <= end and range.end >= start, the
\* empty list for a chromosome without a range, and leaves the contents of
\* the list unchanged (same chromosomes, same ranges, same to_dict and size).
C29_FindOverlapsPure ==
    [][ op' = "find_overlaps" =>
          /\ ~out'.raised
          /\ out'.value = SelectSeq(DictGet(tree, params'.chromosome, <<>>),
                             LAMBDA r : /\ r.start <= params'.end
                                        /\ r.end >= params'.start)
          /\ GenomicRangesToDict([genomic_ranges_map |-> tree', ids |-> <<>>])
                = GenomicRangesToDict([genomic_ranges_map |-> tree, ids |-> <<>>])
          /\ RangesListSize(tree') = RangesListSize(tree)
          /\ lists' = lists ]_vars

\* what find_overlaps does keep: the result is right, the ranges and the ID
\* maps stay, and the only change is an empty entry for an unknown chromosome
C29_FindOverlapsAddsEmptyEntry ==
    [][ op' = "find_overlaps" =>
          /\ ~out'.raised
          /\ out'.value = SelectSeq(DictGet(tree, params'.chromosome, <<>>),
                             LAMBDA r : /\ r.start <= params'.end
                                        /\ r.end >= params'.start)
          /\ FlattenRanges(tree') = FlattenRanges(tree)
          /\ lists' = lists
          /\ tree' = IF \E k \in 1..Len(tree) : tree[k][1] = params'.chromosome
                     THEN tree
                     ELSE Append(tree, <<params'.chromosome, <<>> >>) ]_vars

----------------------------------------------------------------------------
(* filter_excluded_regions as a partition of the calls (SpecOverlap)       *)

\* the calls of variant v that lie in one of the excluded regions
CallsInExcludedRegion(v) ==
    {c \in CallSet(<<v>>) :
        \E r \in RangesOf(params.genomic_ranges_list) : InPaddedRange(c, r, params.padding)}

====
